---- MODULE Spec2Model ----
(***************************************************************************)
(* The request / act / observe loop of web-eval-agent's two CUA            *)
(* controllers:                                                            *)
(*   webEvalAgent/src/cua_integration.py  OpenAICUA.run_task               *)
(*   webEvalAgent/src/openai_cua.py       OpenAICUA.run_task               *)
(* One behaviour is one run_task invocation on a freshly constructed agent *)
(* (run_browser_task and run_openai_cua_task construct one per task).      *)
(* Two further specifications cover the code around the loop:              *)
(*   SpecBrowser  browser_utils_cua.py  two run_browser_task invocations   *)
(*   SpecLog      log_server.py         the dashboard push operations      *)
(* The reasoning service, the browser page and the screenshot capture are  *)
(* the environment: every call to them either returns or raises, and the   *)
(* service answers with any output of ServiceOutputs.                      *)
(***************************************************************************)
EXTENDS Integers, Sequences, FiniteSets, TLC

\* ------------------------------------------------------------------ bounds
\* largest max_iterations a configuration is drawn with (1..MaxN)
MaxN == 2
\* largest number of computer_call items the service puts in one response
MaxCalls == 2
\* openai_cua has no iteration cap: the model follows its first MaxSteps
\* requests exactly; with the next request the history of the invocation is
\* forgotten (the control flow never reads it) and no longer recorded
MaxSteps == 3

\* ------------------------------------------------------------- vocabulary
None == "none"
NoCallId == <<0, 0>>
\* action types that reach the page (mouse / keyboard) and so can raise
DeviceActions == {"click"}
\* the ActionDescriptor vocabulary
KnownVocabulary ==
    {"click", "double_click", "type", "keypress", "scroll", "move", "drag", "wait",
     "screenshot"}
\* the action of a computer_call: a type of the vocabulary, a type outside it
\* ("zoom"), or None when the item has no action
ActionChoices == {"click", "wait", "zoom", None}
Impls == {"cua_integration", "openai_cua"}

VARIABLES
    impl,                 \* which controller this invocation runs
    pc,                   \* position of the run_task coroutine
    page,                 \* state.page is set (initialize_browser was called)
    initial_url,          \* run_task was given an initial_url
    max_iterations,       \* config.max_iterations
    iteration_count,      \* state.iteration_count
    completed,            \* state.completed
    error,                \* state.error
    previous_response_id, \* state.previous_response_id
    screenshots,          \* state.screenshots / self.screenshots
    response,             \* the local `response` / `response_data`
    computer_calls,       \* the local list the for loop walks
    call_idx,             \* position of the for loop in computer_calls
    exc,                  \* the exception travelling to the except clause
    result,               \* what run_task returned
    step_count,           \* openai_cua: local step_count
    items,                \* openai_cua: message items collected in `items`
    request_data,         \* the request payload built last
    task_result,          \* openai_cua: what run_openai_cua_task returned
    \* history of the invocation, read by the properties only
    n_requests,           \* requests sent to the reasoning service
    n_responses,          \* responses received (the id of the latest one)
    n_captures,           \* screenshots captured (the image of the latest one)
    executed,             \* the actions the executor completed, in order
    failure,              \* the first collaborator failure of the invocation
    first_calls,          \* computer_call items in the first response (-1: none yet)
    all_single,           \* every response so far carried exactly one computer_call
    received,             \* the call_ids of the computer_call items received so far
    sent,                 \* the call_ids carried by the requests sent so far
    logged_checks,        \* the call_ids whose pending safety checks were logged
    invocation,           \* how many times run_task was called on this agent object
    record_calls,         \* whether the history keeps `received` (SpecCalls only)
    \* browser_utils_cua.py: module globals and the locals of each invocation
    active_cdp_session,        \* global: the CDP session stored last (NoSession: None)
    active_screencast_running, \* global flag
    screenshot_storage,        \* global list of observation entries
    b_pc,                 \* position of each run_browser_task coroutine
    cdp_session,          \* local `cdp_session` of each invocation
    b_page,               \* local `page` of each invocation is set
    b_result,             \* what each invocation returns
    stops,                \* <<invocation, session>>: who sent Page.stopScreencast to which session
    detaches,             \* <<invocation, session>>: who detached which session
    overlap,              \* an invocation began while another one was running
    b_failed,             \* the steps of each invocation's try block that raised
    acquired,             \* the locals (playwright, browser, context, page) each invocation set
    cleanup,              \* the cleanup steps each invocation attempted, in order
    cleanup_failed,       \* the cleanup step of each invocation that raised (None: none)
    \* log_server.py
    current_url,          \* global current_url (Unset: the name is not bound)
    current_task,         \* global current_task
    emitted,              \* events the transport delivered, in order
    last_op,              \* the push operation called last and how it ended
    \* the executors
    x_impl,               \* the executor that is called
    x_action,             \* the action descriptor it is given
    x_ops,                \* the device operations it performed, in order
    x_branch,             \* the branch of its if / elif chain it took
    x_pc,                 \* ready, returned or raised
    \* openai_cua.py: the resources of run_openai_cua_task
    cm_pc,                \* position of each run_openai_cua_task invocation
    cm_fields,            \* the fields playwright, browser, page of its object that are set
    cm_open,              \* the resources it acquired that are not released
    cm_result,            \* what the invocation returns (None: nothing)
    \* browser_utils_cua.py: the event logs
    console_log_storage,  \* global deque of console entries
    network_request_storage, \* global deque of request entries
    listening,            \* the listeners are registered on a browser context
    console_events,       \* console events so far
    requests,             \* the request event of each request id (url, resource type)
    req_pc,               \* position of each _handle_request task
    resp_pc,              \* position of each _handle_response task
    net_appended,         \* ids of the request entries appended, in order
    \* log_server.py: the dashboard
    connected_clients,    \* global set of the sids of the connected clients
    serving,              \* the socket server is started
    set_call,             \* arguments of the set_evaluation_params call under way
    last_set,             \* arguments of the last set_evaluation_params call that ended
    last_handler,         \* the socket handler that ran last, how it ended, what it emitted
    \* browser_utils_cua.py: the screencast frames
    casting,              \* the frame handler is registered and the screencast started
    frames,               \* the event of each frame: has 'data', its 'sessionId'
    f_pc,                 \* position of the handler task of each frame
    frame_log,            \* the forwardings and acknowledgements sent, in order
    ack_failed,           \* the frames whose acknowledgement raised
    handler_raised        \* an exception left a frame handler

ctlVars == <<impl, pc, page, initial_url, max_iterations>>
stateVars == <<iteration_count, completed, error, previous_response_id, screenshots>>
localVars == <<response, computer_calls, call_idx, exc, result>>
oaiVars == <<step_count, items>>
histVars ==
    <<n_requests, n_responses, n_captures, executed, failure, first_calls, all_single,
      received>>
ackVars == <<sent, logged_checks>>
cleanupVars == <<cleanup, cleanup_failed>>
browserVars ==
    <<active_cdp_session, active_screencast_running, screenshot_storage, b_pc,
      cdp_session, b_page, b_result, stops, detaches, overlap, b_failed, acquired,
      cleanupVars>>
logVars == <<current_url, current_task, emitted, last_op>>
agentVars == <<invocation, record_calls>>
\* the variables that no step inside a run_task invocation changes
execVars == <<x_impl, x_action, x_ops, x_branch, x_pc>>
cmVars == <<cm_pc, cm_fields, cm_open, cm_result>>
\* the variables of the components added to the first four
evVars ==
    <<console_log_storage, network_request_storage, listening, console_events, requests,
      req_pc, resp_pc, net_appended>>
dashVars == <<connected_clients, serving, set_call, last_set, last_handler>>
frVars == <<casting, frames, f_pc, frame_log, ack_failed, handler_raised>>
auxVars == <<cmVars, evVars, dashVars, frVars>>
compVars == <<browserVars, logVars, agentVars, execVars, auxVars>>
loopVars ==
    <<agentVars, ctlVars, stateVars, localVars, oaiVars, request_data, task_result,
      histVars, ackVars>>
vars == <<loopVars, compVars>>

\* -------------------------------------------------------- reasoning service
Message == [type |-> "message", action |-> None, text |-> "Logged in", checks |-> << >>]
Reasoning == [type |-> "reasoning", action |-> None, text |-> "thinking", checks |-> << >>]
Call(a) == [type |-> "computer_call", action |-> a, text |-> "", checks |-> << >>]
\* a computer_call that carries one pending safety check
CheckedCall(a) ==
    [type |-> "computer_call", action |-> a, text |-> "", checks |-> <<"malicious_instructions">>]

\* the outputs the service may answer with: no call at all (with or without a
\* final message), 1..MaxCalls calls, and calls mixed with other items
ServiceOutputs ==
    {<< >>, <<Message>>}
    \cup {[i \in 1..k |-> Call(a)] : k \in 1..MaxCalls, a \in ActionChoices}
    \cup {<<Reasoning, Call("wait"), Message>>}
    \cup {<<CheckedCall("click")>>}

\* the service stamps each computer_call with a call_id of its own
Stamp(shape, id) ==
    [i \in 1..Len(shape) |->
        [type |-> shape[i].type, action |-> shape[i].action, text |-> shape[i].text,
         checks |-> shape[i].checks,
         call_id |-> IF shape[i].type = "computer_call" THEN <<id, i>> ELSE NoCallId]]

Responses(id) == {[id |-> id, output |-> Stamp(shape, id)] : shape \in ServiceOutputs}

NoResponse == [id |-> 0, output |-> << >>]
NoRequest ==
    [previous_response_id |-> 0, call_id |-> NoCallId, image |-> 0,
     acknowledged_safety_checks |-> << >>]
\* the first request of an invocation: the task text and the initial screenshot
InitialRequest(image) ==
    [previous_response_id |-> 0, call_id |-> NoCallId, image |-> image,
     acknowledged_safety_checks |-> << >>]
NoResult == [keys |-> {}]

\* number of computer_call items of an output (history only)
NumCalls(output) == Cardinality({i \in 1..Len(output) : output[i].type = "computer_call"})

\* most run_task invocations made on one agent object
MaxRuns == 2

\* the uncapped controller has sent more than MaxSteps requests
Overflowed == n_requests > MaxSteps
\* counters and lists of the uncapped controller, no longer recorded then
Inc(n) == IF Overflowed THEN n ELSE n + 1
Push(s, e) == IF Overflowed THEN s ELSE Append(s, e)

\* ---------------------------------------------------------------- Init
\* a freshly constructed agent, before run_task is called
LoopInit ==
    /\ impl \in Impls
    /\ invocation = 1
    /\ record_calls \in BOOLEAN
    /\ pc = IF impl = "cua_integration" THEN "start" ELSE "o_visit"
    /\ page \in (IF impl = "cua_integration" THEN BOOLEAN ELSE {TRUE})
    /\ initial_url \in (IF impl = "cua_integration" THEN BOOLEAN ELSE {FALSE})
    /\ max_iterations \in (IF impl = "cua_integration" THEN 1..MaxN ELSE {0})
    /\ iteration_count = 0
    /\ completed = FALSE
    /\ error = None
    /\ previous_response_id = 0
    /\ screenshots = << >>
    /\ response = NoResponse
    /\ computer_calls = << >>
    /\ call_idx = 0
    /\ exc = None
    /\ result = NoResult
    /\ step_count = 0
    /\ items = << >>
    /\ request_data = NoRequest
    /\ task_result = NoResult
    /\ sent = {}
    /\ logged_checks = {}
    /\ n_requests = 0
    /\ n_responses = 0
    /\ n_captures = 0
    /\ executed = << >>
    /\ failure = None
    /\ first_calls = -1
    /\ all_single = TRUE
    /\ received = {}

\* ===================================================== cua_integration.py
\* the statements of run_task that sit inside its try block
InTry(p) == p \in {"initial_request", "while", "execute", "capture", "post", "return"}

\* an exception raised at the current position: caught by run_task's except
\* clause when the position is inside the try, leaving run_task otherwise
Raise(e) ==
    /\ exc' = e
    /\ pc' = IF InTry(pc) THEN "except" ELSE "raised"
    /\ failure' = IF failure = None THEN e ELSE failure

\* the call_ids of the computer_call items of an output
CallIds(output) ==
    {output[i].call_id : i \in {j \in 1..Len(output) : output[j].type = "computer_call"}}

\* what the history records of a response the client received
Received(r) ==
    /\ n_responses' = r.id
    /\ first_calls' = IF first_calls = -1 THEN NumCalls(r.output) ELSE first_calls
    /\ all_single' = (all_single /\ NumCalls(r.output) = 1)
    /\ received' = IF record_calls THEN received \cup CallIds(r.output) ELSE received

\* mutant of LoopGuard: the cap compared with <= instead of <
LoopGuardOffByOne == ~completed /\ iteration_count <= max_iterations

\* the condition of the while loop
LoopGuard == ~completed /\ iteration_count < max_iterations

\* mutant of ComputerCalls: the item type is not filtered
AllItems(output) == output

\* the computer_call items of a response, in output order
ComputerCalls(output) == SelectSeq(output, LAMBDA it : it.type = "computer_call")

\* mutant of FinalResult: the result text does not look at state.completed
FinalResultFixedText ==
    [result |-> [text |-> "Task completed successfully", n |-> 0, e |-> None],
     screenshots |-> screenshots,
     iterations |-> iteration_count,
     completed |-> completed,
     error |-> error]

\* the dictionary returned after the loop
FinalResult ==
    [result |-> IF completed
                THEN [text |-> "Task completed successfully", n |-> 0, e |-> None]
                ELSE [text |-> "Task stopped after n iterations", n |-> iteration_count, e |-> None],
     screenshots |-> screenshots,
     iterations |-> iteration_count,
     completed |-> completed,
     error |-> error]

\* mutant of ErrorResult: the error result drops the observation history
ErrorResultWithoutHistory(e) ==
    [result |-> [text |-> "Error: e", n |-> 0, e |-> e],
     screenshots |-> << >>,
     iterations |-> iteration_count,
     completed |-> FALSE,
     error |-> e]

\* the dictionary returned by the except clause
ErrorResult(e) ==
    [result |-> [text |-> "Error: e", n |-> 0, e |-> e],
     screenshots |-> screenshots,
     iterations |-> iteration_count,
     completed |-> FALSE,
     error |-> e]

\* the entry appended to state.screenshots after an action
ScreenshotEntry(cc, image) ==
    [step |-> iteration_count, screenshot |-> image, action |-> cc.action]

\* the follow-up request for a computer_call (it has no
\* acknowledged_safety_checks entry)
\* a follow-up request carrying the observation captured before the action
FollowUpRequestStaleImage(cc, image) ==
    [previous_response_id |-> previous_response_id, call_id |-> cc.call_id,
     image |-> image - 1, acknowledged_safety_checks |-> << >>]

FollowUpRequest(cc, image) ==
    [previous_response_id |-> previous_response_id, call_id |-> cc.call_id, image |-> image,
     acknowledged_safety_checks |-> << >>]

\* execute_action: the device operations it issues for the action types the
\* service of this model answers with (click, wait, and the else branch)
ExecuteAction(a) ==
    CASE a = "click" -> <<"mouse.click">>
      [] a = "wait" -> << >>
      [] OTHER -> << >>

\* what the history records of an action the executor completed
ExecRecord(cc, ops) ==
    [call_id |-> cc.call_id, action |-> cc.action, at_resp |-> n_responses,
     n_req |-> n_requests, n_cap |-> n_captures, ops |-> ops, checks |-> cc.checks]

\* the safety checks of a computer_call are logged one by one
LogChecks(cc) == IF cc.checks # << >> THEN logged_checks \cup {cc.call_id} ELSE logged_checks

\* the page check and the optional navigation that open run_task
C_Start ==
    /\ impl = "cua_integration" /\ pc = "start"
    /\ \/ /\ ~page
          /\ Raise("page_not_initialized")
       \/ /\ page
          /\ initial_url
          /\ \/ /\ pc' = "initial_capture"
                /\ UNCHANGED <<exc, failure>>
             \/ Raise("navigate")
       \/ /\ page
          /\ ~initial_url
          /\ pc' = "initial_capture"
          /\ UNCHANGED <<exc, failure>>
    /\ UNCHANGED <<impl, page, initial_url, max_iterations, stateVars, response,
                   computer_calls, call_idx, result, oaiVars, request_data,
                   n_requests, n_responses, n_captures, executed, first_calls, all_single, received>>
    /\ UNCHANGED <<sent, logged_checks, task_result>>
    /\ UNCHANGED compVars

\* initial_screenshot = await self.capture_screenshot()
C_InitialCapture ==
    /\ impl = "cua_integration" /\ pc = "initial_capture"
    /\ \/ /\ n_captures' = n_captures + 1
          /\ pc' = "initial_request"
          /\ UNCHANGED <<exc, failure>>
       \/ /\ Raise("capture")
          /\ UNCHANGED n_captures
    /\ UNCHANGED <<impl, page, initial_url, max_iterations, stateVars, response,
                   computer_calls, call_idx, result, oaiVars, request_data,
                   n_requests, n_responses, executed, first_calls, all_single, received>>
    /\ UNCHANGED <<sent, logged_checks, task_result>>
    /\ UNCHANGED compVars

\* the initial request: the task text and the initial screenshot
C_InitialRequest ==
    /\ impl = "cua_integration" /\ pc = "initial_request"
    /\ n_requests' = n_requests + 1
    /\ request_data' = InitialRequest(n_captures)
    /\ \/ \E r \in Responses(n_responses + 1) :
            /\ response' = r
            /\ previous_response_id' = r.id
            /\ Received(r)
            /\ pc' = "while"
            /\ UNCHANGED <<exc, failure>>
       \/ \E e \in {"transport", "status"} :
            /\ Raise(e)
            /\ UNCHANGED <<response, previous_response_id, n_responses, first_calls, all_single, received>>
    /\ UNCHANGED <<impl, page, initial_url, max_iterations, iteration_count, completed,
                   error, screenshots, computer_calls, call_idx, result, oaiVars,
                   n_captures, executed>>
    /\ UNCHANGED <<sent, logged_checks, task_result>>
    /\ UNCHANGED compVars

\* one evaluation of the while condition and, when it holds, the scan of the
\* response's output items
C_While ==
    /\ impl = "cua_integration" /\ pc = "while"
    /\ IF LoopGuard
       THEN /\ iteration_count' = iteration_count + 1
            /\ IF ComputerCalls(response.output) = << >>
               THEN /\ completed' = TRUE
                    /\ pc' = "return"
                    /\ UNCHANGED <<computer_calls, call_idx>>
               ELSE /\ computer_calls' = ComputerCalls(response.output)
                    /\ call_idx' = 1
                    /\ pc' = "execute"
                    /\ UNCHANGED completed
       ELSE /\ pc' = "return"
            /\ UNCHANGED <<iteration_count, completed, computer_calls, call_idx>>
    /\ UNCHANGED <<impl, page, initial_url, max_iterations, error, previous_response_id,
                   screenshots, response, exc, result, oaiVars, request_data, histVars>>
    /\ UNCHANGED <<sent, logged_checks, task_result>>
    /\ UNCHANGED compVars

\* the safety-check log and execute_action for the current computer_call
C_Execute ==
    /\ impl = "cua_integration" /\ pc = "execute"
    /\ LET cc == computer_calls[call_idx] IN
       \/ /\ cc.action = None
          /\ pc' = "capture"
          /\ UNCHANGED <<exc, failure, executed>>
       \/ /\ cc.action # None
          /\ executed' = Append(executed, ExecRecord(cc, ExecuteAction(cc.action)))
          /\ pc' = "capture"
          /\ UNCHANGED <<exc, failure>>
       \/ /\ cc.action \in DeviceActions
          /\ Raise("execute")
          /\ UNCHANGED executed
    /\ logged_checks' = LogChecks(computer_calls[call_idx])
    /\ UNCHANGED <<impl, page, initial_url, max_iterations, stateVars, response,
                   computer_calls, call_idx, result, oaiVars, request_data,
                   n_requests, n_responses, n_captures, first_calls, all_single, received,
                   sent, task_result>>
    /\ UNCHANGED compVars

\* the settle delay, the capture after the action and the history entry
C_Capture ==
    /\ impl = "cua_integration" /\ pc = "capture"
    /\ \/ /\ n_captures' = n_captures + 1
          /\ screenshots' = Append(screenshots,
                                   ScreenshotEntry(computer_calls[call_idx], n_captures + 1))
          /\ pc' = "post"
          /\ UNCHANGED <<exc, failure>>
       \/ /\ Raise("capture")
          /\ UNCHANGED <<n_captures, screenshots>>
    /\ UNCHANGED <<impl, page, initial_url, max_iterations, iteration_count, completed,
                   error, previous_response_id, response, computer_calls, call_idx,
                   result, oaiVars, request_data, n_requests, n_responses, executed,
                   first_calls, all_single, received>>
    /\ UNCHANGED <<sent, logged_checks, task_result>>
    /\ UNCHANGED compVars

\* the follow-up request carrying the screenshot, and its response
C_FollowUp ==
    /\ impl = "cua_integration" /\ pc = "post"
    /\ n_requests' = n_requests + 1
    /\ request_data' = FollowUpRequest(computer_calls[call_idx], n_captures)
    /\ sent' = sent \cup {computer_calls[call_idx].call_id}
    /\ \/ \E r \in Responses(n_responses + 1) :
            /\ response' = r
            /\ previous_response_id' = r.id
            /\ Received(r)
            /\ IF call_idx < Len(computer_calls)
               THEN call_idx' = call_idx + 1 /\ pc' = "execute"
               ELSE call_idx' = call_idx /\ pc' = "while"
            /\ UNCHANGED <<exc, failure>>
       \/ \E e \in {"transport", "status"} :
            /\ Raise(e)
            /\ UNCHANGED <<response, previous_response_id, call_idx, n_responses,
                           first_calls, all_single, received>>
    /\ UNCHANGED <<impl, page, initial_url, max_iterations, iteration_count, completed,
                   error, screenshots, computer_calls, result, oaiVars, n_captures,
                   executed>>
    /\ UNCHANGED <<logged_checks, task_result>>
    /\ UNCHANGED compVars

\* the return after the loop
C_Return ==
    /\ impl = "cua_integration" /\ pc = "return"
    /\ result' = FinalResult
    /\ pc' = "returned"
    /\ UNCHANGED <<impl, page, initial_url, max_iterations, stateVars, response,
                   computer_calls, call_idx, exc, oaiVars, request_data, histVars>>
    /\ UNCHANGED <<sent, logged_checks, task_result>>
    /\ UNCHANGED compVars

\* mutant of C_Except: the error is recorded and the loop is entered again
C_ExceptRetry ==
    /\ impl = "cua_integration" /\ pc = "except"
    /\ error' = exc
    /\ pc' = "while"
    /\ UNCHANGED <<impl, page, initial_url, max_iterations, iteration_count, completed,
                   previous_response_id, screenshots, response, computer_calls, call_idx,
                   exc, result, oaiVars, request_data, histVars>>
    /\ UNCHANGED <<sent, logged_checks, task_result>>
    /\ UNCHANGED compVars

\* the except clause of run_task
C_Except ==
    /\ impl = "cua_integration" /\ pc = "except"
    /\ error' = exc
    /\ result' = ErrorResult(exc)
    /\ pc' = "returned"
    /\ UNCHANGED <<impl, page, initial_url, max_iterations, iteration_count, completed,
                   previous_response_id, screenshots, response, computer_calls, call_idx,
                   exc, oaiVars, request_data, histVars>>
    /\ UNCHANGED <<sent, logged_checks, task_result>>
    /\ UNCHANGED compVars

\* run_task is called again on the same agent object after it returned:
\* the locals are new, self.state is the object __init__ created
C_Invoke ==
    /\ impl = "cua_integration" /\ pc = "returned"
    /\ invocation < MaxRuns
    /\ invocation' = invocation + 1
    /\ pc' = "start"
    /\ initial_url' \in BOOLEAN
    /\ response' = NoResponse /\ computer_calls' = << >> /\ call_idx' = 0
    /\ exc' = None /\ result' = NoResult /\ request_data' = NoRequest
    /\ n_requests' = 0 /\ n_responses' = 0 /\ n_captures' = 0
    /\ executed' = << >> /\ failure' = None
    /\ first_calls' = -1 /\ all_single' = TRUE /\ received' = {}
    /\ sent' = {} /\ logged_checks' = {}
    /\ UNCHANGED <<impl, page, max_iterations, stateVars, oaiVars, task_result>>
    /\ UNCHANGED <<record_calls, browserVars, logVars, execVars, auxVars>>

NextCua ==
    \/ C_Start
    \/ C_InitialCapture
    \/ C_InitialRequest
    \/ C_While
    \/ C_Execute
    \/ C_Capture
    \/ C_FollowUp
    \/ C_Return
    \/ C_Except


\* =========================================================== openai_cua.py
\* the entry appended to self.screenshots after an action
OaiScreenshotEntry(step, image) == [step |-> step, screenshot |-> image]

\* the request prepared after an action: it replaces the one prepared before
OaiFollowUpRequest(cc, image) ==
    [previous_response_id |-> response.id, call_id |-> cc.call_id, image |-> image,
     acknowledged_safety_checks |-> cc.checks]

\* handle_computer_action: the device operations it issues for the action
\* types the service of this model answers with
HandleComputerAction(a) ==
    CASE a = "click" -> <<"mouse.click">>
      [] a = "wait" -> << >>
      [] OTHER -> << >>

\* the message items of an output, which `items` keeps for the final text
Messages(output) == SelectSeq(output, LAMBDA it : it.type = "message")

\* the texts of the collected message items, joined for the result
FinalOutput(its) == [i \in 1..Len(its) |-> its[i].text]

\* run_openai_cua_task: the navigation to the URL after VISIT:, when the task
\* text has one; a failing goto is caught by the except clause of the task
O_Visit ==
    /\ impl = "openai_cua" /\ pc = "o_visit"
    /\ \/ /\ pc' = "o_start"
          /\ UNCHANGED <<exc, failure, task_result>>
       \/ /\ exc' = "navigate"
          /\ failure' = "navigate"
          /\ task_result' = [keys |-> {"error", "screenshots"}, error |-> "navigate",
                             screenshots |-> << >>]
          /\ pc' = "task_done"
    /\ UNCHANGED <<impl, page, initial_url, max_iterations, stateVars, response,
                   computer_calls, call_idx, result, oaiVars, request_data, n_requests,
                   n_responses, n_captures, executed, first_calls, all_single, received, ackVars>>
    /\ UNCHANGED compVars

\* run_openai_cua_task: the result of run_task is returned as it is; an
\* exception that left run_task is turned into an error result
O_TaskExit ==
    /\ impl = "openai_cua" /\ pc \in {"returned", "raised"}
    /\ task_result' = IF pc = "returned"
                      THEN result
                      ELSE [keys |-> {"error", "screenshots"}, error |-> exc,
                            screenshots |-> << >>]
    /\ pc' = "task_done"
    /\ UNCHANGED <<impl, page, initial_url, max_iterations, stateVars, localVars, oaiVars,
                   request_data, histVars, ackVars>>
    /\ UNCHANGED compVars

\* the initial screenshot and the initial request payload
O_Start ==
    /\ impl = "openai_cua" /\ pc = "o_start"
    /\ \/ /\ n_captures' = Inc(n_captures)
          /\ request_data' = InitialRequest(Inc(n_captures))
          /\ pc' = "o_request"
          /\ UNCHANGED <<exc, failure>>
       \/ /\ exc' = "capture"
          /\ failure' = "capture"
          /\ pc' = "raised"
          /\ UNCHANGED <<n_captures, request_data>>
    /\ UNCHANGED <<impl, page, initial_url, max_iterations, stateVars, response,
                   computer_calls, call_idx, result, oaiVars, n_requests, n_responses,
                   executed, first_calls, all_single, received>>
    /\ UNCHANGED <<sent, logged_checks, task_result>>
    /\ UNCHANGED compVars

\* one turn of `while True`: the request, the status check and the scan of
\* the output items
O_Request ==
    /\ impl = "openai_cua" /\ pc = "o_request"
    /\ LET over == n_requests >= MaxSteps
           Kept(x, fresh) == IF over THEN fresh ELSE x
       IN
       /\ n_requests' = IF over THEN MaxSteps + 1 ELSE n_requests + 1
       /\ sent' = Kept(IF request_data.call_id # NoCallId
                       THEN sent \cup {request_data.call_id} ELSE sent, {})
       /\ executed' = Kept(executed, << >>)
       /\ screenshots' = Kept(screenshots, << >>)
       /\ step_count' = Kept(step_count, 0)
       /\ n_captures' = Kept(n_captures, 0)
       /\ logged_checks' = Kept(logged_checks, {})
       /\ request_data' = Kept(request_data, NoRequest)
       /\ \/ /\ exc' = "transport"
             /\ failure' = "transport"
             /\ pc' = "raised"
             /\ items' = Kept(items, << >>)
             /\ n_responses' = Kept(n_responses, 0)
             /\ first_calls' = Kept(first_calls, -1)
             /\ all_single' = Kept(all_single, TRUE)
             /\ received' = Kept(received, {})
             /\ UNCHANGED <<response, computer_calls, call_idx, result>>
          \/ /\ result' = [keys |-> {"error"}, error |-> "status"]
             /\ failure' = "status"
             /\ pc' = "returned"
             /\ items' = Kept(items, << >>)
             /\ n_responses' = Kept(n_responses, 0)
             /\ first_calls' = Kept(first_calls, -1)
             /\ all_single' = Kept(all_single, TRUE)
             /\ received' = Kept(received, {})
             /\ UNCHANGED <<exc, response, computer_calls, call_idx>>
          \/ \E r \in Responses(Kept(n_responses + 1, 0)) :
               /\ response' = r
               /\ n_responses' = r.id
               /\ first_calls' = Kept(IF first_calls = -1 THEN NumCalls(r.output)
                                      ELSE first_calls, -1)
               /\ all_single' = Kept(all_single /\ NumCalls(r.output) = 1, TRUE)
               /\ received' = IF record_calls THEN Kept(received, {}) \cup CallIds(r.output)
                                              ELSE received
               /\ items' = Kept(items \o Messages(r.output), << >>)
               /\ IF ComputerCalls(r.output) = << >>
                  THEN /\ pc' = "o_return"
                       /\ UNCHANGED <<computer_calls, call_idx>>
                  ELSE /\ computer_calls' = ComputerCalls(r.output)
                       /\ call_idx' = 1
                       /\ pc' = "o_execute"
               /\ UNCHANGED <<exc, failure, result>>
    /\ UNCHANGED <<impl, page, initial_url, max_iterations, iteration_count, completed,
                   error, previous_response_id, task_result>>
    /\ UNCHANGED compVars

\* step_count += 1 and handle_computer_action for the current computer_call
O_Execute ==
    /\ impl = "openai_cua" /\ pc = "o_execute"
    /\ LET cc == computer_calls[call_idx] IN
       \/ /\ step_count' = Inc(step_count)
          /\ executed' = IF cc.action # None
                         THEN Push(executed, ExecRecord(cc, HandleComputerAction(cc.action)))
                         ELSE executed
          /\ pc' = "o_screenshot"
          /\ UNCHANGED <<exc, failure>>
       \/ /\ cc.action \in DeviceActions
          /\ step_count' = Inc(step_count)
          /\ exc' = "execute"
          /\ failure' = "execute"
          /\ pc' = "raised"
          /\ UNCHANGED executed
    /\ UNCHANGED <<impl, page, initial_url, max_iterations, stateVars, response,
                   computer_calls, call_idx, result, items, request_data, n_requests,
                   n_responses, n_captures, first_calls, all_single, received>>
    /\ UNCHANGED <<sent, logged_checks, task_result>>
    /\ UNCHANGED compVars

\* the screenshot after the action, the history entry and the next request
\* payload; then the next computer_call of the list, or the next turn
O_Screenshot ==
    /\ impl = "openai_cua" /\ pc = "o_screenshot"
    /\ \/ /\ n_captures' = Inc(n_captures)
          /\ screenshots' = Push(screenshots, OaiScreenshotEntry(step_count, Inc(n_captures)))
          /\ request_data' = OaiFollowUpRequest(computer_calls[call_idx], Inc(n_captures))
          /\ IF call_idx < Len(computer_calls)
             THEN call_idx' = call_idx + 1 /\ pc' = "o_execute"
             ELSE call_idx' = call_idx /\ pc' = "o_request"
          /\ UNCHANGED <<exc, failure>>
       \/ /\ exc' = "capture"
          /\ failure' = "capture"
          /\ pc' = "raised"
          /\ UNCHANGED <<n_captures, screenshots, request_data, call_idx>>
    /\ UNCHANGED <<impl, page, initial_url, max_iterations, iteration_count, completed,
                   error, previous_response_id, response, computer_calls, result,
                   oaiVars, n_requests, n_responses, executed, first_calls, all_single, received>>
    /\ UNCHANGED <<sent, logged_checks, task_result>>
    /\ UNCHANGED compVars

\* the return after the loop: the joined message texts and the screenshots
O_Return ==
    /\ impl = "openai_cua" /\ pc = "o_return"
    /\ result' = [keys |-> {"result", "screenshots"}, result |-> FinalOutput(items),
                  screenshots |-> screenshots]
    /\ pc' = "returned"
    /\ UNCHANGED <<impl, page, initial_url, max_iterations, stateVars, response,
                   computer_calls, call_idx, exc, oaiVars, request_data, histVars>>
    /\ UNCHANGED <<sent, logged_checks, task_result>>
    /\ UNCHANGED compVars

NextOai ==
    \/ O_Visit
    \/ O_TaskExit
    \/ O_Start
    \/ O_Request
    \/ O_Execute
    \/ O_Screenshot
    \/ O_Return


\* ==================================================== browser_utils_cua.py
\* run_browser_task: every invocation is a coroutine of the same event loop;
\* the code between two awaits runs without interruption, each await is a
\* point where the other invocation may run.  cua.run_task is taken by its
\* outcome (the loop itself is the cua_integration part above): it returns a
\* result with the observations of its own actions, or it raises.
Tasks == {1, 2}
\* most observations one run_task records
MaxShots == 2
NoSession == 0
NoTaskResult == [kind |-> None, keys |-> {}]
\* the dict of both return statements: {"result": ..., "screenshots": ...}
TaskResult(kind) == [kind |-> kind, keys |-> {"result", "screenshots"}]

\* the locals the try block assigns, in the order it acquires them
AcquireOrder == <<"playwright", "browser", "context", "page">>
\* the order in which the finally block releases them
CloseOrder == <<"page", "context", "browser", "playwright">>
\* the finally block as a whole
CleanupOrder == <<"stop_screencast", "detach">> \o CloseOrder

\* the observation entries run_task of invocation t recorded, k of them
OwnShots(t, k) == [i \in 1..k |-> [owner |-> t, step |-> i]]

\* the dict run_browser_task returns holds the module's list object itself,
\* not a copy: its entries are whatever the list holds when it is read
Screenshots(res) == IF res.kind = None THEN << >> ELSE screenshot_storage

\* the module's globals as imported, every invocation at position p
BrowserAt(p) ==
    /\ active_cdp_session = NoSession
    /\ active_screencast_running = FALSE
    /\ screenshot_storage = << >>
    /\ b_pc = [t \in Tasks |-> p]
    /\ cdp_session = [t \in Tasks |-> NoSession]
    /\ b_page = [t \in Tasks |-> FALSE]
    /\ b_result = [t \in Tasks |-> NoTaskResult]
    /\ stops = {}
    /\ detaches = {}
    /\ overlap = FALSE
    /\ b_failed = [t \in Tasks |-> {}]
    /\ acquired = [t \in Tasks |-> {}]
    /\ cleanup = [t \in Tasks |-> << >>]
    /\ cleanup_failed = [t \in Tasks |-> None]

\* run_browser_task is not called / may be called
BrowserIdle == BrowserAt("unused")
BrowserInit == BrowserAt("idle")

\* an exception that is not caught: no result is built
B_ExceptPropagates(t) ==
    /\ b_result' = b_result
    /\ b_pc' = [b_pc EXCEPT ![t] = "finally"]

\* the except clause: the error result, then the finally block
B_Except(t) ==
    /\ b_result' = [b_result EXCEPT ![t] = TaskResult("error")]
    /\ b_pc' = [b_pc EXCEPT ![t] = "finally"]

\* a screencast set-up failure handled by the outer except clause
ScreencastExceptFatal(t) == B_Except(t)

\* the except clause around the screencast set-up: the failure is logged and
\* run_browser_task goes on with the CUA initialisation
ScreencastExcept(t) ==
    /\ b_pc' = [b_pc EXCEPT ![t] = "init_cua"]
    /\ UNCHANGED b_result

Failed(t, step) == b_failed' = [b_failed EXCEPT ![t] = @ \cup {step}]

\* entry of run_browser_task up to its first await: the storages are cleared
B_Begin(t) ==
    /\ b_pc[t] = "idle"
    /\ screenshot_storage' = << >>
    /\ b_pc' = [b_pc EXCEPT ![t] = "launch"]
    /\ overlap' = (overlap \/ \E u \in Tasks \ {t} : b_pc[u] \notin {"idle", "done"})
    /\ UNCHANGED <<active_cdp_session, active_screencast_running, cdp_session,
                   b_page, b_result, stops, detaches>>
    /\ UNCHANGED <<b_failed, acquired, cleanupVars, loopVars, logVars, execVars, auxVars>>

\* playwright start, browser launch, context and page creation: all four
\* succeed, or the first n do and the next one raises
B_Launch(t) ==
    /\ b_pc[t] = "launch"
    /\ \/ /\ acquired' = [acquired EXCEPT ![t] = {AcquireOrder[i] : i \in 1..4}]
          /\ b_page' = [b_page EXCEPT ![t] = TRUE]
          /\ b_pc' = [b_pc EXCEPT ![t] = "new_cdp_session"]
          /\ UNCHANGED <<b_result, b_failed>>
       \/ \E n \in 0..3 :
             /\ acquired' = [acquired EXCEPT ![t] = {AcquireOrder[i] : i \in 1..n}]
             /\ Failed(t, "launch")
             /\ B_Except(t)
             /\ UNCHANGED b_page
    /\ UNCHANGED <<active_cdp_session, active_screencast_running, screenshot_storage,
                   cdp_session, stops, detaches>>
    /\ UNCHANGED <<overlap, cleanupVars, loopVars, logVars, execVars, auxVars>>

\* context.new_cdp_session returns and the session is stored in the global;
\* a failure is logged by the inner except and the task goes on
B_NewCdpSession(t) ==
    /\ b_pc[t] = "new_cdp_session"
    /\ \/ /\ cdp_session' = [cdp_session EXCEPT ![t] = t]
          /\ active_cdp_session' = t
          /\ b_pc' = [b_pc EXCEPT ![t] = "start_screencast"]
          /\ UNCHANGED <<b_result, b_failed>>
       \/ /\ Failed(t, "cdp")
          /\ ScreencastExcept(t)
          /\ UNCHANGED <<cdp_session, active_cdp_session>>
    /\ UNCHANGED <<active_screencast_running, screenshot_storage, b_page,
                   stops, detaches>>
    /\ UNCHANGED <<overlap, acquired, cleanupVars, loopVars, logVars, execVars, auxVars>>

\* Page.startScreencast on the invocation's own session returns or raises
B_StartScreencast(t) ==
    /\ b_pc[t] = "start_screencast"
    /\ \/ /\ active_screencast_running' = TRUE
          /\ b_pc' = [b_pc EXCEPT ![t] = "init_cua"]
          /\ UNCHANGED <<b_result, b_failed>>
       \/ /\ Failed(t, "screencast")
          /\ ScreencastExcept(t)
          /\ UNCHANGED active_screencast_running
    /\ UNCHANGED <<active_cdp_session, screenshot_storage, cdp_session, b_page,
                   stops, detaches>>
    /\ UNCHANGED <<overlap, acquired, cleanupVars, loopVars, logVars, execVars, auxVars>>

\* OpenAICUA(...) and cua.initialize_browser(page)
B_InitCua(t) ==
    /\ b_pc[t] = "init_cua"
    /\ \/ /\ b_pc' = [b_pc EXCEPT ![t] = "run_task"]
          /\ UNCHANGED <<b_result, b_failed>>
       \/ /\ Failed(t, "init_cua")
          /\ B_Except(t)
    /\ UNCHANGED <<active_cdp_session, active_screencast_running, screenshot_storage,
                   cdp_session, b_page, stops, detaches>>
    /\ UNCHANGED <<overlap, acquired, cleanupVars, loopVars, logVars, execVars, auxVars>>

\* cua.run_task returns a result with k observations: they are appended to
\* the storage and the result of run_browser_task is built
RunTaskReturns(t, k) ==
    /\ b_pc[t] = "run_task"
    /\ screenshot_storage' = screenshot_storage \o OwnShots(t, k)
    /\ b_result' = [b_result EXCEPT ![t] = TaskResult("result")]
    /\ b_pc' = [b_pc EXCEPT ![t] = "finally"]
    /\ UNCHANGED b_failed

\* cua.run_task raises: the except clause builds the result
RunTaskRaises(t) ==
    /\ b_pc[t] = "run_task"
    /\ Failed(t, "run_task")
    /\ B_Except(t)
    /\ UNCHANGED screenshot_storage

B_RunTask(t) ==
    /\ \/ \E k \in 0..MaxShots : RunTaskReturns(t, k)
       \/ RunTaskRaises(t)
    /\ UNCHANGED <<active_cdp_session, active_screencast_running, cdp_session,
                   b_page, stops, detaches>>
    /\ UNCHANGED <<overlap, acquired, cleanupVars, loopVars, logVars, execVars, auxVars>>

\* a cleanup step is attempted
Attempt(t, step) == cleanup' = [cleanup EXCEPT ![t] = Append(@, step)]

\* a cleanup step returns or raises; the model follows at most one raising
\* cleanup step per invocation
StepOutcome(t, step) ==
    \/ UNCHANGED cleanup_failed
    \/ /\ cleanup_failed[t] = None
       /\ cleanup_failed' = [cleanup_failed EXCEPT ![t] = step]

\* finally: Page.stopScreencast is sent to the session the global holds
B_StopScreencast(t) ==
    /\ b_pc[t] = "finally"
    /\ IF active_screencast_running /\ active_cdp_session # NoSession
          THEN /\ stops' = stops \cup {<<t, active_cdp_session>>}
               /\ Attempt(t, "stop_screencast")
               /\ b_pc' = [b_pc EXCEPT ![t] = "stop_sent"]
          ELSE /\ b_pc' = [b_pc EXCEPT ![t] = "detach"]
               /\ UNCHANGED <<stops, cleanup>>
    /\ UNCHANGED <<active_cdp_session, active_screencast_running, screenshot_storage,
                   cdp_session, b_page, b_result, detaches>>
    /\ UNCHANGED <<overlap, b_failed, acquired, cleanup_failed, loopVars, logVars, execVars, auxVars>>

\* the send returned or raised (which is swallowed): the flag is reset
B_ScreencastStopped(t) ==
    /\ b_pc[t] = "stop_sent"
    /\ StepOutcome(t, "stop_screencast")
    /\ active_screencast_running' = FALSE
    /\ b_pc' = [b_pc EXCEPT ![t] = "detach"]
    /\ UNCHANGED <<active_cdp_session, screenshot_storage, cdp_session, b_page,
                   b_result, stops, detaches>>
    /\ UNCHANGED <<overlap, b_failed, acquired, cleanup, loopVars, logVars, execVars, auxVars>>

\* finally: the session the global holds is detached
B_Detach(t) ==
    /\ b_pc[t] = "detach"
    /\ IF active_cdp_session # NoSession
          THEN /\ detaches' = detaches \cup {<<t, active_cdp_session>>}
               /\ Attempt(t, "detach")
               /\ b_pc' = [b_pc EXCEPT ![t] = "detach_sent"]
          ELSE /\ b_pc' = [b_pc EXCEPT ![t] = "close"]
               /\ UNCHANGED <<detaches, cleanup>>
    /\ UNCHANGED <<active_cdp_session, active_screencast_running, screenshot_storage,
                   cdp_session, b_page, b_result, stops>>
    /\ UNCHANGED <<overlap, b_failed, acquired, cleanup_failed, loopVars, logVars, execVars, auxVars>>

\* the detach returned or raised (which is swallowed): the global is reset
B_Detached(t) ==
    /\ b_pc[t] = "detach_sent"
    /\ StepOutcome(t, "detach")
    /\ active_cdp_session' = NoSession
    /\ b_pc' = [b_pc EXCEPT ![t] = "close"]
    /\ UNCHANGED <<active_screencast_running, screenshot_storage, cdp_session, b_page,
                   b_result, stops, detaches>>
    /\ UNCHANGED <<overlap, b_failed, acquired, cleanup, loopVars, logVars, execVars, auxVars>>

\* the close steps attempted when step `bad` raises and nothing catches it
CloseStepsUnguarded(acq, bad) ==
    LET all == SelectSeq(CloseOrder, LAMBDA r : r \in acq)
        upto == IF \E i \in 1..Len(all) : all[i] = bad
                   THEN CHOOSE i \in 1..Len(all) : all[i] = bad
                   ELSE Len(all)
    IN  SubSeq(all, 1, upto)

\* the close steps attempted: page, context, browser, playwright, each one
\* that is set, each inside its own try / except: pass
CloseSteps(acq, bad) == SelectSeq(CloseOrder, LAMBDA r : r \in acq)

\* page, context, browser and playwright of the invocation are closed and
\* the caller receives the result
B_Close(t) ==
    /\ b_pc[t] = "close"
    /\ \E bad \in {None} \cup (IF cleanup_failed[t] = None THEN acquired[t] ELSE {}) :
          /\ cleanup' = [cleanup EXCEPT ![t] = @ \o CloseSteps(acquired[t], bad)]
          /\ cleanup_failed' = IF bad = None THEN cleanup_failed
                                             ELSE [cleanup_failed EXCEPT ![t] = bad]
    /\ b_page' = [b_page EXCEPT ![t] = FALSE]
    /\ b_pc' = [b_pc EXCEPT ![t] = "done"]
    /\ UNCHANGED <<active_cdp_session, active_screencast_running, screenshot_storage,
                   cdp_session, b_result, stops, detaches>>
    /\ UNCHANGED <<overlap, b_failed, acquired, loopVars, logVars, execVars, auxVars>>

NextBrowser ==
    \E t \in Tasks :
        \/ B_Begin(t)
        \/ B_Launch(t)
        \/ B_NewCdpSession(t)
        \/ B_StartScreencast(t)
        \/ B_InitCua(t)
        \/ B_RunTask(t)
        \/ B_StopScreencast(t)
        \/ B_ScreencastStopped(t)
        \/ B_Detach(t)
        \/ B_Detached(t)
        \/ B_Close(t)


\* ============================================================ log_server.py
\* The push operations of the dashboard transport.  socketio.emit is the
\* environment: each call delivers the event or raises.
\* most events followed in one behaviour
MaxEvents == 4
Unset == "unset"
Urls == {"", "http://site"}
TaskTexts == {"", "click the login button"}

\* socketio.emit(name, ...): the event is delivered when the transport works
Emit(evts, name, ok) == IF ok THEN Append(evts, name) ELSE evts

\* send_log: the emit is inside try / except Exception: pass
SendLogEvents(evts, ok) == Emit(evts, "log_message", ok)

LogAt(op) ==
    /\ current_url = Unset
    /\ current_task = Unset
    /\ emitted = << >>
    /\ last_op = [op |-> op, outcome |-> None]

\* the module is not in use / imported and ready
LogIdle == LogAt("unused")
LogInit == LogAt(None)

\* send_log(message, emoji, log_type)
SendLog ==
    /\ last_op.op # "unused" /\ Len(emitted) < MaxEvents
    /\ \E ok \in BOOLEAN : emitted' = SendLogEvents(emitted, ok)
    /\ last_op' = [op |-> "send_log", outcome |-> "returned"]
    /\ UNCHANGED <<current_url, current_task>>
    /\ UNCHANGED <<loopVars, browserVars, execVars, auxVars>>

\* set_evaluation_params(url, task): the globals are assigned, then the
\* evaluation_params event is emitted outside any try, then two send_log
SetEvaluationParamsBody(url, task, ok, ok1, ok2) ==
    /\ current_url' = url
    /\ current_task' = task
    /\ IF ok
          THEN /\ emitted' = SendLogEvents(SendLogEvents(Emit(emitted, "evaluation_params", TRUE), ok1), ok2)
               /\ last_op' = [op |-> "set_evaluation_params", outcome |-> "returned"]
          ELSE /\ emitted' = emitted
               /\ last_op' = [op |-> "set_evaluation_params", outcome |-> "raised"]

SetEvaluationParams ==
    /\ last_op.op # "unused" /\ Len(emitted) < MaxEvents
    /\ \E url \in Urls, task \in TaskTexts, ok \in BOOLEAN, ok1 \in BOOLEAN, ok2 \in BOOLEAN :
          SetEvaluationParamsBody(url, task, ok, ok1, ok2)
    /\ UNCHANGED <<loopVars, browserVars, execVars, auxVars>>

\* send_browser_view(image_data_url): an invalid data URL returns at once;
\* the import of set_screencast_running and the emit are each guarded
SendBrowserView ==
    /\ last_op.op # "unused" /\ Len(emitted) < MaxEvents
    /\ \E valid \in BOOLEAN, ok \in BOOLEAN :
          emitted' = IF valid THEN Emit(emitted, "browser_update", ok) ELSE emitted
    /\ last_op' = [op |-> "send_browser_view", outcome |-> "returned"]
    /\ UNCHANGED <<current_url, current_task>>
    /\ UNCHANGED <<loopVars, browserVars, execVars, auxVars>>

NextLog ==
    \/ SendLog
    \/ SetEvaluationParams
    \/ SendBrowserView

\* a configuration in which no run_task loop runs
LoopIdle ==
    /\ impl = "cua_integration" /\ pc = "unused"
    /\ invocation = 1 /\ record_calls = FALSE
    /\ page = FALSE /\ initial_url = FALSE /\ max_iterations = 1
    /\ iteration_count = 0 /\ completed = FALSE /\ error = None
    /\ previous_response_id = 0 /\ screenshots = << >>
    /\ response = NoResponse /\ computer_calls = << >> /\ call_idx = 0
    /\ exc = None /\ result = NoResult
    /\ step_count = 0 /\ items = << >>
    /\ request_data = NoRequest /\ task_result = NoResult
    /\ sent = {} /\ logged_checks = {}
    /\ n_requests = 0 /\ n_responses = 0 /\ n_captures = 0
    /\ executed = << >> /\ failure = None
    /\ first_calls = -1 /\ all_single = TRUE /\ received = {}

\* ============================================================ executors
\* execute_action (cua_integration) and handle_computer_action (openai_cua)
\* applied to one action descriptor with its parameters; the device
\* operations are the calls made on page.mouse, page.keyboard and page.
Points == {"p1", "p2"}
Origin == "p0"
\* longest drag path and longest key list of a descriptor
MaxPath == 3
MaxKeys == 2
\* key names as the reasoning service may send them
KeyNames == {"ENTER", "enter", "Space", "tab", "Escape", "a"}

SeqsUpTo(S, n) == UNION {[1..k -> S] : k \in 0..n}

PointerTypes == {"click", "double_click", "scroll", "move"}
PlainTypes == {"type", "wait", "screenshot", "zoom"}

Descriptor(type, at, path, keys) ==
    [type |-> type, at |-> at, path |-> path, keys |-> keys]

\* the action descriptors an executor is applied to
Descriptors ==
    {Descriptor(t, p, << >>, << >>) : t \in PointerTypes, p \in Points}
        \cup {Descriptor(t, Origin, << >>, << >>) : t \in PlainTypes}
        \cup {Descriptor("drag", Origin, path, << >>) : path \in SeqsUpTo(Points, MaxPath)}
        \cup {Descriptor("keypress", Origin, << >>, keys) : keys \in SeqsUpTo(KeyNames, MaxKeys)}

Op(name, arg) == [op |-> name, arg |-> arg]

\* str.upper() on the key names
Upper(key) ==
    CASE key = "enter" -> "ENTER"
      [] key = "Space" -> "SPACE"
      [] key = "tab" -> "TAB"
      [] key = "Escape" -> "ESCAPE"
      [] key = "a" -> "A"
      [] OTHER -> key

\* the if / elif chain of execute_action on key.upper()
MapKey(key) ==
    CASE Upper(key) = "ENTER" -> "Enter"
      [] Upper(key) = "SPACE" -> " "
      [] Upper(key) = "TAB" -> "Tab"
      [] Upper(key) = "ESCAPE" -> "Escape"
      [] OTHER -> key

\* openai_cua.keypress: every key goes to keyboard.press as it is
Keypress(keys) == [i \in 1..Len(keys) |-> Op("keyboard.press", keys[i])]

\* openai_cua.drag
Drag(path) ==
    IF path = << >>
    THEN << >>
    ELSE <<Op("mouse.move", path[1]), Op("mouse.down", None)>>
             \o [i \in 1..(Len(path) - 1) |-> Op("mouse.move", path[i + 1])]
             \o <<Op("mouse.up", None)>>

\* the branch of execute_action that an action type takes
ExecuteActionBranch(type) ==
    IF type \in {"click", "type", "keypress", "scroll", "wait", "screenshot"}
    THEN type ELSE "unknown"

\* the device operations of execute_action
ExecuteActionOps(a) ==
    CASE a.type = "click" -> <<Op("mouse.click", a.at)>>
      [] a.type = "type" -> <<Op("keyboard.type", "text")>>
      [] a.type = "keypress" -> [i \in 1..Len(a.keys) |-> Op("keyboard.press", MapKey(a.keys[i]))]
      [] a.type = "scroll" -> <<Op("mouse.move", a.at), Op("evaluate", "scrollBy")>>
      [] OTHER -> << >>

\* the branch of handle_computer_action that an action type takes
HandleComputerActionBranch(type) ==
    IF type \in {"click", "type", "scroll", "keypress", "wait", "move", "double_click",
                 "drag", "screenshot"}
    THEN type ELSE "unknown"

\* the device operations of handle_computer_action
HandleComputerActionOps(a) ==
    CASE a.type = "click" -> <<Op("mouse.click", a.at)>>
      [] a.type = "type" -> <<Op("keyboard.type", "text")>>
      [] a.type = "scroll" -> <<Op("mouse.move", a.at), Op("evaluate", "scrollBy")>>
      [] a.type = "keypress" -> Keypress(a.keys)
      [] a.type = "move" -> <<Op("mouse.move", a.at)>>
      [] a.type = "double_click" -> <<Op("mouse.dblclick", a.at)>>
      [] a.type = "drag" -> Drag(a.path)
      [] OTHER -> << >>

ExecAt(p) ==
    /\ x_pc = p
    /\ x_ops = << >>
    /\ x_branch = None

\* no executor is called / an executor is about to be called
ExecIdle == ExecAt("unused") /\ x_impl = "cua_integration" /\ x_action = Descriptor(None, Origin, << >>, << >>)
ExecInit == ExecAt("ready") /\ x_impl \in Impls /\ x_action \in Descriptors

\* the executor performs the operations in order; it returns after the last
\* one, or one of them raises and the exception leaves the executor
Perform(branch, ops) ==
    /\ x_branch' = branch
    /\ \/ /\ x_ops' = ops
          /\ x_pc' = "returned"
       \/ \E k \in 1..Len(ops) :
             /\ x_ops' = SubSeq(ops, 1, k - 1)
             /\ x_pc' = "raised"

X_ExecuteAction ==
    /\ x_pc = "ready" /\ x_impl = "cua_integration"
    /\ Perform(ExecuteActionBranch(x_action.type), ExecuteActionOps(x_action))
    /\ UNCHANGED <<x_impl, x_action, loopVars, browserVars, logVars, auxVars>>

X_HandleComputerAction ==
    /\ x_pc = "ready" /\ x_impl = "openai_cua"
    /\ Perform(HandleComputerActionBranch(x_action.type), HandleComputerActionOps(x_action))
    /\ UNCHANGED <<x_impl, x_action, loopVars, browserVars, logVars, auxVars>>

NextExec == X_ExecuteAction \/ X_HandleComputerAction

\* ============================================== openai_cua.py: resources
\* run_openai_cua_task: `async with OpenAICUA(api_key) as cua:` around the
\* task.  __aenter__ acquires the playwright driver, the browser and the
\* page; the body (the navigation and run_task inside try / except, the
\* openai_cua part above) always ends with a return; __aexit__ closes the
\* page, the browser and the driver.  Every await is a step.  Two
\* invocations, each with its own OpenAICUA object.
Managers == {1, 2}
Resources == {"playwright", "browser", "page"}

CmAt(p) ==
    /\ cm_pc = [m \in Managers |-> p]
    /\ cm_fields = [m \in Managers |-> {}]
    /\ cm_open = [m \in Managers |-> {}]
    /\ cm_result = [m \in Managers |-> None]

\* run_openai_cua_task is not called / may be called
CmIdle == CmAt("unused")
CmInit == CmAt("idle")

\* a resource is created and stored in its field of the object
Acquire(m, r) ==
    /\ cm_fields' = [cm_fields EXCEPT ![m] = @ \cup {r}]
    /\ cm_open' = [cm_open EXCEPT ![m] = @ \cup {r}]

\* an exception leaves run_openai_cua_task: raised inside __aenter__, the
\* `async with` statement does not call __aexit__; raised inside __aexit__,
\* the rest of __aexit__ is not run
CmRaise(m) ==
    /\ cm_pc' = [cm_pc EXCEPT ![m] = "raised"]
    /\ cm_result' = [cm_result EXCEPT ![m] = None]

\* __aenter__: async_playwright().start()
M_StartPlaywright(m) ==
    /\ cm_pc[m] = "idle"
    /\ \/ /\ Acquire(m, "playwright")
          /\ cm_pc' = [cm_pc EXCEPT ![m] = "launch"]
          /\ UNCHANGED cm_result
       \/ /\ CmRaise(m)
          /\ UNCHANGED <<cm_fields, cm_open>>
    /\ UNCHANGED <<loopVars, browserVars, logVars, execVars, evVars, dashVars, frVars>>

\* __aenter__: playwright.chromium.launch(...)
M_Launch(m) ==
    /\ cm_pc[m] = "launch"
    /\ \/ /\ Acquire(m, "browser")
          /\ cm_pc' = [cm_pc EXCEPT ![m] = "new_page"]
          /\ UNCHANGED cm_result
       \/ /\ CmRaise(m)
          /\ UNCHANGED <<cm_fields, cm_open>>
    /\ UNCHANGED <<loopVars, browserVars, logVars, execVars, evVars, dashVars, frVars>>

\* __aenter__: browser.new_context() and context.new_page()
M_NewPage(m) ==
    /\ cm_pc[m] = "new_page"
    /\ \/ /\ Acquire(m, "page")
          /\ cm_pc' = [cm_pc EXCEPT ![m] = "set_viewport"]
          /\ UNCHANGED cm_result
       \/ /\ CmRaise(m)
          /\ UNCHANGED <<cm_fields, cm_open>>
    /\ UNCHANGED <<loopVars, browserVars, logVars, execVars, evVars, dashVars, frVars>>

\* __aenter__: page.set_viewport_size(...), then `return self`
M_SetViewport(m) ==
    /\ cm_pc[m] = "set_viewport"
    /\ \/ /\ cm_pc' = [cm_pc EXCEPT ![m] = "body"]
          /\ UNCHANGED cm_result
       \/ CmRaise(m)
    /\ UNCHANGED <<cm_fields, cm_open>>
    /\ UNCHANGED <<loopVars, browserVars, logVars, execVars, evVars, dashVars, frVars>>

\* the body of the with statement: run_task's result, or the error result
\* of the except clause; either way a return, which runs __aexit__
M_Body(m) ==
    /\ cm_pc[m] = "body"
    /\ \E res \in {"result", "error"} : cm_result' = [cm_result EXCEPT ![m] = res]
    /\ cm_pc' = [cm_pc EXCEPT ![m] = "close_page"]
    /\ UNCHANGED <<cm_fields, cm_open>>
    /\ UNCHANGED <<loopVars, browserVars, logVars, execVars, evVars, dashVars, frVars>>

\* one close of __aexit__: `if self.<field>: await self.<field>.<close>()`;
\* closing the browser also closes its pages
CloseStep(m, at, field, released, next) ==
    /\ cm_pc[m] = at
    /\ IF field \in cm_fields[m]
       THEN \/ /\ cm_open' = [cm_open EXCEPT ![m] = @ \ released]
               /\ cm_pc' = [cm_pc EXCEPT ![m] = next]
               /\ UNCHANGED cm_result
            \/ /\ CmRaise(m)
               /\ UNCHANGED cm_open
       ELSE /\ cm_pc' = [cm_pc EXCEPT ![m] = next]
            /\ UNCHANGED <<cm_open, cm_result>>
    /\ UNCHANGED cm_fields
    /\ UNCHANGED <<loopVars, browserVars, logVars, execVars, evVars, dashVars, frVars>>

\* __aexit__: `if self.page: await self.page.close()`
M_ClosePage(m) ==
    /\ cm_pc[m] = "close_page"
    /\ CloseStep(m, "close_page", "page", {"page"}, "close_browser")

\* __aexit__: `if self.browser: await self.browser.close()`
M_CloseBrowser(m) ==
    /\ cm_pc[m] = "close_browser"
    /\ CloseStep(m, "close_browser", "browser", {"browser", "page"}, "stop_playwright")

\* __aexit__: `if self.playwright: await self.playwright.stop()`, then the
\* return of the body takes effect
M_StopPlaywright(m) ==
    /\ cm_pc[m] = "stop_playwright"
    /\ CloseStep(m, "stop_playwright", "playwright", {"playwright"}, "returned")

NextCm ==
    \E m \in Managers :
        \/ M_StartPlaywright(m)
        \/ M_Launch(m)
        \/ M_NewPage(m)
        \/ M_SetViewport(m)
        \/ M_Body(m)
        \/ M_ClosePage(m)
        \/ M_CloseBrowser(m)
        \/ M_StopPlaywright(m)

\* ======================================= browser_utils_cua.py: event logs
\* The console and network listeners of the browser context.  Every event
\* creates a detached task (asyncio.create_task); a task runs without
\* interruption up to its next await.  _handle_console_message has no await
\* before its append, so console entries are appended in event order.
\* _handle_request awaits the headers (and the post data, when the request
\* has some) before it appends; _handle_response awaits the headers before
\* it scans the storage.

\* maxlen of both deques (1000 in the source, scaled down)
MAX_LOG_ENTRIES == 2
\* most events (console messages and requests) of the page
MaxPageEvents == 3
RequestIds == 1..MaxPageEvents

extensions_to_filter ==
    {".js", ".css", ".woff", ".woff2", ".ttf", ".eot", ".svg", ".png", ".jpg", ".jpeg",
     ".gif", ".ico", ".map"}

\* `sub in url` on the urls above
InUrl(sub, url) ==
    \/ sub = "/node_modules/" /\ url = "/node_modules/pkg/api"
    \/ sub = ".css?" /\ url = "/static/app.css?v=1"

\* url.endswith(ext) on the urls above
EndsWith(url, ext) == url = "/static/app.js" /\ ext = ".js"

Question(ext) ==
    CASE ext = ".css" -> ".css?"
      [] OTHER -> "?"

should_log_network_request(request) ==
    IF InUrl("/node_modules/", request.url)
    THEN FALSE
    ELSE IF request.resource_type # "xhr" /\ request.resource_type # "fetch"
    THEN FALSE
    ELSE ~ \E ext \in extensions_to_filter :
               EndsWith(request.url, ext) \/ InUrl(Question(ext), request.url)

Request(resource_type, url) == [resource_type |-> resource_type, url |-> url]
NoRequestEvent == Request(None, None)
\* the requests a page makes: one that is logged, and one for each reason
\* not to log
RequestEvents ==
    {Request("xhr", "/api/items"), Request("script", "/api/items"),
     Request("xhr", "/node_modules/pkg/api"), Request("xhr", "/static/app.js"),
     Request("fetch", "/static/app.css?v=1")}

\* list.append: nothing is ever dropped
ListAppend(q, e) == Append(q, e)

\* deque(maxlen=MAX_LOG_ENTRIES).append: the oldest entry is dropped when
\* the deque is full
DequeAppend(q, e) ==
    IF Len(q) >= MAX_LOG_ENTRIES THEN Append(Tail(q), e) ELSE Append(q, e)

NoResponseData == 0
request_entry(r, post_data) == [id |-> r, postData |-> post_data, response |-> NoResponseData]

EvAt(started) ==
    /\ console_log_storage = << >>
    /\ network_request_storage = << >>
    /\ listening = started
    /\ console_events = 0
    /\ requests = [r \in RequestIds |-> NoRequestEvent]
    /\ req_pc = [r \in RequestIds |-> "none"]
    /\ resp_pc = [r \in RequestIds |-> "none"]
    /\ net_appended = << >>

\* no browser context is listened to / the listeners are set up
EvIdle == EvAt(FALSE)
EvInit == EvAt(TRUE)

\* the next request of the page that has not been seen yet
NextRequest == Cardinality({r \in RequestIds : req_pc[r] # "none"}) + 1
PageEvents == console_events + NextRequest - 1

\* a console event and its handler task: the entry is appended
E_Console ==
    /\ listening /\ PageEvents < MaxPageEvents
    /\ console_events' = console_events + 1
    /\ console_log_storage' = DequeAppend(console_log_storage, console_events + 1)
    /\ UNCHANGED <<network_request_storage, listening, requests, req_pc, resp_pc,
                   net_appended>>
    /\ UNCHANGED <<loopVars, browserVars, logVars, execVars, cmVars, dashVars, frVars>>

\* a request event: handle_request creates the task, and the task runs up to
\* its first await: the filter, then request.all_headers()
E_Request ==
    /\ listening /\ PageEvents < MaxPageEvents
    /\ \E ev \in RequestEvents :
          /\ requests' = [requests EXCEPT ![NextRequest] = ev]
          /\ req_pc' = [req_pc EXCEPT ![NextRequest] =
                           IF should_log_network_request(ev) THEN "headers" ELSE "done"]
    /\ UNCHANGED <<console_log_storage, network_request_storage, listening,
                   console_events, resp_pc, net_appended>>
    /\ UNCHANGED <<loopVars, browserVars, logVars, execVars, cmVars, dashVars, frVars>>

\* the entry is built and appended
AppendEntry(r, post_data) ==
    /\ network_request_storage' =
          DequeAppend(network_request_storage, request_entry(r, post_data))
    /\ net_appended' = Append(net_appended, r)
    /\ req_pc' = [req_pc EXCEPT ![r] = "done"]

\* the headers arrived (or failed, which is replaced by an error text): a
\* request with post data awaits its buffer, another one appends its entry
E_RequestHeaders(r) ==
    /\ req_pc[r] = "headers"
    /\ \/ /\ req_pc' = [req_pc EXCEPT ![r] = "post_data"]
          /\ UNCHANGED <<network_request_storage, net_appended>>
       \/ AppendEntry(r, None)
    /\ UNCHANGED <<console_log_storage, listening, console_events, requests, resp_pc>>
    /\ UNCHANGED <<loopVars, browserVars, logVars, execVars, cmVars, dashVars, frVars>>

\* the post data arrived (or failed): the entry is appended
E_RequestPostData(r) ==
    /\ req_pc[r] = "post_data"
    /\ AppendEntry(r, "data")
    /\ UNCHANGED <<console_log_storage, listening, console_events, requests, resp_pc>>
    /\ UNCHANGED <<loopVars, browserVars, logVars, execVars, cmVars, dashVars, frVars>>

\* the response event of a request: handle_response creates the task, and
\* the task runs up to its await: the filter, then response.all_headers()
E_Response(r) ==
    /\ req_pc[r] # "none" /\ resp_pc[r] = "none"
    /\ resp_pc' = [resp_pc EXCEPT ![r] =
                      IF should_log_network_request(requests[r]) THEN "headers" ELSE "done"]
    /\ UNCHANGED <<console_log_storage, network_request_storage, listening,
                   console_events, requests, req_pc, net_appended>>
    /\ UNCHANGED <<loopVars, browserVars, logVars, execVars, cmVars, dashVars, frVars>>

\* the for loop of _handle_response: the first entry with the request's id
\* and no response gets the response data
AttachResponse(q, r) ==
    LET hits == {i \in 1..Len(q) : q[i].id = r /\ q[i].response = NoResponseData}
    IN  IF hits = {}
        THEN q
        ELSE LET first == CHOOSE i \in hits : \A j \in hits : i <= j
             IN  [q EXCEPT ![first].response = r]

\* the response headers arrived: the storage is scanned
E_ResponseHeaders(r) ==
    /\ resp_pc[r] = "headers"
    /\ network_request_storage' = AttachResponse(network_request_storage, r)
    /\ resp_pc' = [resp_pc EXCEPT ![r] = "done"]
    /\ UNCHANGED <<console_log_storage, listening, console_events, requests, req_pc,
                   net_appended>>
    /\ UNCHANGED <<loopVars, browserVars, logVars, execVars, cmVars, dashVars, frVars>>

NextEv ==
    \/ E_Console
    \/ E_Request
    \/ \E r \in RequestIds :
          \/ E_RequestHeaders(r)
          \/ E_RequestPostData(r)
          \/ E_Response(r)
          \/ E_ResponseHeaders(r)

\* ============================================ log_server.py: the dashboard
\* The socket handlers of the dashboard.  The server runs in threading mode
\* (_async_mode = 'threading'): a handler runs in a thread of the server
\* while set_evaluation_params runs in the thread of its caller, so a
\* handler may run between the two assignments of set_evaluation_params.
Sids == {1, 2}
NameError == "NameError"
NoParams == [url |-> Unset, task |-> Unset]
Params(url, task) == [url |-> url, task |-> task]
NoHandler == [handler |-> None, sid |-> 0, outcome |-> None, events |-> << >>]

DashAt(started) ==
    /\ connected_clients = {}
    /\ serving = started
    /\ set_call = NoParams
    /\ last_set = NoParams
    /\ last_handler = NoHandler

\* the server is not started / serves clients
DashIdle == DashAt(FALSE)
DashInit == DashAt(TRUE)

\* `if current_url or current_task:` followed by the payload
\* {'url': current_url, 'task': current_task}: reading a global that was
\* never assigned raises NameError
RaisesNameError ==
    \/ current_url = Unset
    \/ current_task = Unset

EvaluationParamsEvent(sid, url, task) ==
    [name |-> "evaluation_params", to |-> sid, url |-> url, task |-> task]

\* the events the handler emits when both globals are assigned
EvaluationParamsFor(sid) ==
    IF current_url = "" /\ current_task = ""
    THEN << >>
    ELSE <<EvaluationParamsEvent(sid, current_url, current_task)>>

\* the handler ends: with NameError, with the exception of a failing emit,
\* or normally
Handled(handler, sid, ok) ==
    last_handler' =
        IF RaisesNameError
        THEN [handler |-> handler, sid |-> sid, outcome |-> "raised", events |-> << >>]
        ELSE [handler |-> handler, sid |-> sid, events |-> EvaluationParamsFor(sid),
              outcome |-> IF EvaluationParamsFor(sid) # << >> /\ ~ok
                          THEN "raised" ELSE "returned"]

\* handle_connect: the client is recorded, a status line is logged, and the
\* evaluation parameters are sent to the client when there are any
HandleConnect(sid) ==
    /\ serving /\ sid \notin connected_clients /\ Len(emitted) < MaxEvents
    /\ connected_clients' = connected_clients \cup {sid}
    /\ \E ok1 \in BOOLEAN : emitted' = SendLogEvents(emitted, ok1)
    /\ \E ok \in BOOLEAN : Handled("connect", sid, ok)
    /\ UNCHANGED <<current_url, current_task, last_op, serving, set_call, last_set>>
    /\ UNCHANGED <<loopVars, browserVars, execVars, cmVars, evVars, frVars>>

\* handle_disconnect: the client is forgotten; the status line is guarded
HandleDisconnect(sid) ==
    /\ serving /\ sid \in connected_clients /\ Len(emitted) < MaxEvents
    /\ connected_clients' = connected_clients \ {sid}
    /\ \E ok1 \in BOOLEAN : emitted' = SendLogEvents(emitted, ok1)
    /\ last_handler' = [handler |-> "disconnect", sid |-> sid, outcome |-> "returned",
                        events |-> << >>]
    /\ UNCHANGED <<current_url, current_task, last_op, serving, set_call, last_set>>
    /\ UNCHANGED <<loopVars, browserVars, execVars, cmVars, evVars, frVars>>

\* handle_request_evaluation_params of a connected client
HandleRequestEvaluationParams(sid) ==
    /\ serving /\ sid \in connected_clients
    /\ \E ok \in BOOLEAN : Handled("request_evaluation_params", sid, ok)
    /\ UNCHANGED <<current_url, current_task, emitted, last_op, connected_clients,
                   serving, set_call, last_set>>
    /\ UNCHANGED <<loopVars, browserVars, execVars, cmVars, evVars, frVars>>

\* set_evaluation_params(url, task), first assignment: current_url = url
SetEvaluationParamsUrl ==
    /\ serving /\ set_call = NoParams /\ Len(emitted) < MaxEvents
    /\ \E url \in Urls, task \in TaskTexts :
          /\ set_call' = Params(url, task)
          /\ current_url' = url
    /\ UNCHANGED <<current_task, emitted, last_op, connected_clients, serving, last_set,
                   last_handler>>
    /\ UNCHANGED <<loopVars, browserVars, execVars, cmVars, evVars, frVars>>

\* set_evaluation_params, the rest: current_task = task, the broadcast of
\* evaluation_params outside any try, and the two status lines
SetEvaluationParamsTask ==
    /\ serving /\ set_call # NoParams
    /\ current_task' = set_call.task
    /\ \E ok \in BOOLEAN, ok1 \in BOOLEAN, ok2 \in BOOLEAN :
          IF ok
          THEN /\ emitted' = SendLogEvents(SendLogEvents(Emit(emitted, "evaluation_params", TRUE), ok1), ok2)
               /\ last_op' = [op |-> "set_evaluation_params", outcome |-> "returned"]
          ELSE /\ emitted' = emitted
               /\ last_op' = [op |-> "set_evaluation_params", outcome |-> "raised"]
    /\ last_set' = set_call
    /\ set_call' = NoParams
    /\ UNCHANGED <<current_url, connected_clients, serving, last_handler>>
    /\ UNCHANGED <<loopVars, browserVars, execVars, cmVars, evVars, frVars>>

NextDash ==
    \/ SetEvaluationParamsUrl
    \/ SetEvaluationParamsTask
    \/ \E sid \in Sids :
          \/ HandleConnect(sid)
          \/ HandleDisconnect(sid)
          \/ HandleRequestEvaluationParams(sid)

\* ==================================== browser_utils_cua.py: the screencast
\* handle_screencast_frame, the handler run_browser_task registers for
\* Page.screencastFrame.  Every frame event runs the handler as a task of
\* its own.  send_browser_view (log_server) has no await inside, so the
\* handler runs from the event to the await of the acknowledgement without
\* interruption; the acknowledgement returns or raises later.
MaxFrames == 3
Frames == 1..MaxFrames
\* values of the sessionId key of a frame event; NoKey: the key is missing
SessionIds == {1, 2}
NoKey == 0
NoFrame == [data |-> FALSE, sessionId |-> NoKey, seen |-> FALSE]
FrameEvents == [data : BOOLEAN, sessionId : SessionIds \cup {NoKey}, seen : {TRUE}]

FrAt(started) ==
    /\ casting = started
    /\ frames = [f \in Frames |-> NoFrame]
    /\ f_pc = [f \in Frames |-> "none"]
    /\ frame_log = << >>
    /\ ack_failed = {}
    /\ handler_raised = FALSE

\* no screencast / the screencast is started
FrIdle == FrAt(FALSE)
FrInit == FrAt(TRUE)

NextFrame == Cardinality({f \in Frames : f_pc[f] # "none"}) + 1

Forward(f, ok) == [op |-> "browser_update", frame |-> f, sessionId |-> NoKey, ok |-> ok]
Ack(f, sessionId) ==
    [op |-> "Page.screencastFrameAck", frame |-> f, sessionId |-> sessionId, ok |-> TRUE]

\* what follows the forwarding when a failing emit is not caught inside
\* send_browser_view: the handler's except clause is entered, no
\* acknowledgement
AfterForwardUnguarded(f, sessionId, ok) == IF ok THEN <<Ack(f, sessionId)>> ELSE << >>

\* what follows `await send_browser_view(...)`: send_browser_view catches a
\* failing emit itself, so the acknowledgement is sent either way
AfterForward(f, sessionId, ok) == <<Ack(f, sessionId)>>

\* a frame event: the key check, send_browser_view with the data URL built
\* from the frame (its emit delivers or fails), then the acknowledgement is
\* sent with the frame's sessionId
S_Frame ==
    /\ casting /\ NextFrame <= MaxFrames
    /\ \E ev \in FrameEvents :
          /\ frames' = [frames EXCEPT ![NextFrame] = ev]
          /\ IF ~ev.data \/ ev.sessionId = NoKey
             THEN /\ f_pc' = [f_pc EXCEPT ![NextFrame] = "done"]
                  /\ UNCHANGED frame_log
             ELSE \E ok \in BOOLEAN :
                     LET rest == AfterForward(NextFrame, ev.sessionId, ok) IN
                     /\ frame_log' = frame_log \o <<Forward(NextFrame, ok)>> \o rest
                     /\ f_pc' = [f_pc EXCEPT ![NextFrame] =
                                    IF rest = << >> THEN "done" ELSE "ack_sent"]
    /\ UNCHANGED <<casting, ack_failed, handler_raised>>
    /\ UNCHANGED <<loopVars, browserVars, logVars, execVars, cmVars, evVars, dashVars>>

\* the acknowledgement returned, or raised and was dropped by the handler's
\* `except Exception: pass`
S_Acked(f) ==
    /\ f_pc[f] = "ack_sent"
    /\ \/ UNCHANGED ack_failed
       \/ ack_failed' = ack_failed \cup {f}
    /\ f_pc' = [f_pc EXCEPT ![f] = "done"]
    /\ UNCHANGED <<casting, frames, frame_log, handler_raised>>
    /\ UNCHANGED <<loopVars, browserVars, logVars, execVars, cmVars, evVars, dashVars>>

NextFr ==
    \/ S_Frame
    \/ \E f \in Frames : S_Acked(f)

\* none of the added components runs
AuxIdle == CmIdle /\ EvIdle /\ DashIdle /\ FrIdle

\* ------------------------------------------------------- specifications
Next == NextCua \/ NextOai

\* one run_task invocation of either controller
Init == LoopInit /\ record_calls = FALSE /\ BrowserIdle /\ LogIdle /\ ExecIdle /\ AuxIdle

Spec == Init /\ [][Next]_vars

\* one cua_integration run_task invocation, the call_ids received recorded
InitCalls ==
    LoopInit /\ impl = "cua_integration" /\ record_calls = TRUE /\ BrowserIdle /\ LogIdle
        /\ ExecIdle /\ AuxIdle

SpecCalls == InitCalls /\ [][NextCua]_vars

\* run_task of cua_integration called up to MaxRuns times on one agent
InitReuse == Init /\ impl = "cua_integration"

NextReuse == NextCua \/ C_Invoke

SpecReuse == InitReuse /\ [][NextReuse]_vars

\* two run_browser_task invocations on one event loop
InitBrowser == LoopIdle /\ BrowserInit /\ LogIdle /\ ExecIdle /\ AuxIdle

SpecBrowser == InitBrowser /\ [][NextBrowser]_vars

\* the push operations of log_server, called in any order
InitLog == LoopIdle /\ BrowserIdle /\ LogInit /\ ExecIdle /\ AuxIdle

SpecLog == InitLog /\ [][NextLog]_vars

\* one call of an executor with one action descriptor
InitExec == LoopIdle /\ BrowserIdle /\ LogIdle /\ ExecInit /\ AuxIdle

SpecExec == InitExec /\ [][NextExec]_vars

\* two run_openai_cua_task invocations, each with its own OpenAICUA object
InitCm == LoopIdle /\ BrowserIdle /\ LogIdle /\ ExecIdle /\ CmInit /\ EvIdle /\ DashIdle /\ FrIdle

SpecCm == InitCm /\ [][NextCm]_vars

\* the console and network events of one browser context
InitEv == LoopIdle /\ BrowserIdle /\ LogIdle /\ ExecIdle /\ CmIdle /\ EvInit /\ DashIdle /\ FrIdle

SpecEv == InitEv /\ [][NextEv]_vars

\* the dashboard handlers and set_evaluation_params, in any interleaving
InitDash ==
    LoopIdle /\ BrowserIdle /\ LogInit /\ ExecIdle /\ CmIdle /\ EvIdle /\ DashInit /\ FrIdle

SpecDash == InitDash /\ [][NextDash]_vars

\* the screencast frames of one run_browser_task invocation
InitFr ==
    LoopIdle /\ BrowserIdle /\ LogIdle /\ ExecIdle /\ CmIdle /\ EvIdle /\ DashIdle /\ FrInit

SpecFr == InitFr /\ [][NextFr]_vars

\* every collaborator call returns, so the coroutine keeps taking its steps
FairSpec == Spec /\ WF_vars(Next)

\* run_task has returned a result or left by an exception
Done == pc \in {"returned", "raised", "task_done"}


\* ================================================================ claims
IsCua == impl = "cua_integration"

\* C1: with max_iterations = N, the `iterations` value of the result that
\* cua_integration run_task returns never exceeds N, on every exit path.
C1_IterationsWithinCap ==
    (IsCua /\ pc = "returned") => result.iterations <= max_iterations

\* an invocation stopped by the cap: iterations reached max_iterations
C1_Witness ==
    /\ IsCua /\ pc = "returned"
    /\ result.iterations = max_iterations
    /\ ~result.completed /\ result.error = None

\* C2: with max_iterations = N, at most N actions are executed and at most N
\* observations are appended to the history in one invocation, also when a
\* response carries more than one computer_call.
C2_AtMostNActionsAndObservations ==
    IsCua => (Len(executed) <= max_iterations /\ Len(screenshots) <= max_iterations)

\* C3: every run_task invocation, of either controller, eventually returns
\* (or leaves by an exception) when every collaborator call returns.
C3_EveryInvocationTerminates == <>Done

\* C4: at most one action is executed per response received, and the action
\* executed is one of the latest response received, never of an older one.
C4_OneActionPerResponse ==
    \A i \in 1..Len(executed) :
        /\ executed[i].call_id[1] = executed[i].at_resp
        /\ \A j \in 1..Len(executed) :
              i # j => executed[i].at_resp # executed[j].at_resp

\* C5: between two consecutively executed actions the controller captured a
\* new observation, sent a new request and received its response.
C5_ObserveAndRequestBetweenActions ==
    \A i \in 1..(Len(executed) - 1) :
        /\ executed[i + 1].n_cap > executed[i].n_cap
        /\ executed[i + 1].n_req > executed[i].n_req
        /\ executed[i + 1].at_resp > executed[i].at_resp

\* C6: when the first response carries no computer_call, cua_integration
\* run_task executes no action, sends no further request and goes straight to
\* its return, which reports completed = true and at most one history entry.
C6_FirstResponseWithoutCalls ==
    (IsCua /\ first_calls = 0) =>
        /\ pc \in {"while", "return", "returned"}
        /\ executed = << >>
        /\ n_requests = 1
        /\ pc = "returned" =>
              /\ result.completed = TRUE
              /\ result.error = None
              /\ Len(result.screenshots) <= 1

\* the invocation returned after a first response without computer_call
C6_Witness == IsCua /\ first_calls = 0 /\ pc = "returned"

\* C7: when every response carries exactly one computer_call and nothing
\* fails, cua_integration run_task with max_iterations = N returns N history
\* entries, iterations = N, completed = false, no error and the text
\* "Task stopped after N iterations".
C7_SingleCallsRunToTheCap ==
    (IsCua /\ pc = "returned" /\ all_single /\ failure = None) =>
        /\ Len(result.screenshots) = max_iterations
        /\ result.iterations = max_iterations
        /\ result.completed = FALSE
        /\ result.error = None
        /\ result.result = [text |-> "Task stopped after n iterations",
                            n |-> max_iterations, e |-> None]

\* such an invocation returned, with the largest cap of the model
C7_Witness ==
    /\ IsCua /\ pc = "returned" /\ all_single /\ failure = None
    /\ max_iterations = MaxN
    /\ Len(executed) = MaxN

\* C8: when the k-th request of an invocation gets a non-2xx status, the
\* result has completed = false, a populated error and exactly k-1 history
\* entries, and no action was executed after the k-th request was sent.
C8_NonSuccessAtRequestK ==
    (IsCua /\ pc = "returned" /\ failure = "status") =>
        /\ result.completed = FALSE
        /\ result.error # None
        /\ Len(result.screenshots) = n_requests - 1
        /\ \A i \in 1..Len(executed) : executed[i].n_req <= n_requests - 1

\* a follow-up request (k >= 2) got the non-2xx status, after an action
C8_Witness ==
    /\ IsCua /\ pc = "returned" /\ failure = "status"
    /\ n_requests >= 2
    /\ executed # << >>

\* C9: every failure is terminal: once a collaborator call has failed, no
\* further request is sent and no further action is executed.
C9_FailureIsTerminal ==
    [][failure # None => (n_requests' = n_requests /\ executed' = executed)]_vars

\* a follow-up request failed after an action while the cap still left room
\* for another iteration, and run_task has returned
C9_Witness ==
    /\ IsCua /\ pc = "returned"
    /\ failure = "transport"
    /\ n_requests >= 2
    /\ executed # << >>
    /\ iteration_count < max_iterations

\* C10: with an initialized page, every capture or execution failure makes
\* run_task return a result with completed = false and a populated error; the
\* failure never leaves run_task as an exception.
C10_CaptureAndExecuteFailuresAreReturned ==
    (IsCua /\ page /\ failure \in {"capture", "execute"}) =>
        /\ pc # "raised"
        /\ pc = "returned" => (result.completed = FALSE /\ result.error # None)


IsOai == impl = "openai_cua"

\* C11: a result with completed = false and no error is returned only when
\* the iteration counter reached max_iterations without a failure, and every
\* invocation (with an initialized page) that a failure ended returns
\* completed = false with the error set.
C11_ExhaustionDistinctFromFailure ==
    (IsCua /\ page) =>
        /\ (pc = "returned" /\ ~result.completed /\ result.error = None) =>
               (result.iterations = max_iterations /\ failure = None)
        /\ (Done /\ failure # None) =>
               (pc = "returned" /\ ~result.completed /\ result.error # None)

\* every history entry records the executed action of the same position
EntriesRecordActions ==
    /\ Len(screenshots) <= Len(executed)
    /\ \A i \in 1..Len(screenshots) : screenshots[i].action = executed[i].action

\* C12: the observation history is append-only and holds one entry per
\* executed action, in execution order; no entry exists without an executed
\* action and none is removed or rewritten.
C12_OneEntryPerExecutedAction ==
    [][IsCua =>
          /\ Len(screenshots') >= Len(screenshots)
          /\ SubSeq(screenshots', 1, Len(screenshots)) = screenshots
          /\ EntriesRecordActions'
          /\ (pc' = "returned" /\ failure' = None) => Len(screenshots') = Len(executed')]_vars

\* C13: in every result returned by cua_integration run_task the length of
\* the observation history equals the `iterations` value.
C13_HistoryLengthEqualsIterations ==
    (IsCua /\ pc = "returned") => Len(result.screenshots) = result.iterations

\* the service answered one computer_call, whose action was executed, and
\* then a response without computer_call that carries a final message;
\* nothing failed and the cap leaves room for the second response
OneCallThenFinalMessage ==
    /\ pc = "returned" /\ failure = None
    /\ IsCua => max_iterations >= 2
    /\ n_responses = 2 /\ first_calls = 1 /\ Len(executed) = 1
    /\ NumCalls(response.output) = 0
    /\ \E i \in 1..Len(response.output) : response.output[i].type = "message"

\* the strings a cua_integration result text is made of
TextParts(res) == {res.result.text, res.result.e}

\* C14: after one computer_call and then a final message, run_task returns
\* completed = true, one history entry recording that action, and a result
\* text containing the text of the final message (cua_integration); the
\* result text of openai_cua run_task contains it too.
C14_FinalMessageInResultText ==
    OneCallThenFinalMessage =>
        \A i \in 1..Len(response.output) :
            response.output[i].type = "message" =>
                /\ IsCua =>
                      /\ result.completed = TRUE
                      /\ Len(result.screenshots) = 1
                      /\ Len(executed) = 1 =>
                            result.screenshots[1].action = executed[1].action
                      /\ response.output[i].text \in TextParts(result)
                /\ IsOai =>
                      /\ "result" \in result.keys
                      /\ \E j \in 1..Len(result.result) :
                            result.result[j] = response.output[i].text

\* C15: an action of a type outside the vocabulary issues no device
\* operation and raises no error, and the loop advances for it: the
\* observation after it is captured and appended, and the next request, which
\* carries its call_id, is sent.
C15_UnknownActionSkippedLoopAdvances ==
    /\ \A i \in 1..Len(executed) :
          executed[i].action \notin KnownVocabulary =>
              /\ executed[i].ops = << >>
              /\ (n_responses > executed[i].at_resp \/ i < Len(executed)) =>
                    /\ executed[i].call_id \in sent
                    /\ \E j \in 1..Len(screenshots) :
                          screenshots[j].screenshot = executed[i].n_cap + 1
    /\ failure = "execute" => computer_calls[call_idx].action \in KnownVocabulary

\* C16: every pending safety check of an executed computer_call is logged
\* and is passed back in the follow-up request for that call.
C16_SafetyChecksAcknowledged ==
    \A i \in 1..Len(executed) :
        executed[i].checks # << >> =>
            /\ executed[i].call_id \in logged_checks
            /\ request_data.call_id = executed[i].call_id =>
                  request_data.acknowledged_safety_checks = executed[i].checks

\* C17: a failing navigation to the initial URL does not end the invocation:
\* run_task is not left by the exception and no error result is produced.
C17_NavigationIsBestEffort ==
    failure = "navigate" =>
        /\ pc # "raised"
        /\ pc = "task_done" => "error" \notin task_result.keys

\* C18: when a run is aborted by a fatal error, the result returned still
\* carries the observation history recorded up to then.
C18_FatalErrorKeepsHistory ==
    /\ (IsCua /\ pc = "returned" /\ failure # None) =>
           result.screenshots = screenshots
    /\ (IsOai /\ ~Overflowed /\ pc = "returned" /\ failure # None) =>
           ("screenshots" \in result.keys /\ result.screenshots = screenshots)
    /\ (IsOai /\ ~Overflowed /\ pc = "task_done" /\ failure # None) =>
           ("screenshots" \in task_result.keys /\ task_result.screenshots = screenshots)


\* C19: when two run_browser_task invocations overlap, each one stops and
\* detaches only the CDP session it created itself, and the observation
\* history each one returns holds only observations of its own actions.
C19_InvocationsShareNoSessionResources ==
    overlap =>
        /\ \A sd \in stops \cup detaches : sd[2] = cdp_session[sd[1]]
        /\ \A t \in Tasks :
              b_pc[t] = "done" =>
                  \A i \in 1..Len(Screenshots(b_result[t])) :
                      Screenshots(b_result[t])[i].owner = t

PushOperations == {"send_log", "send_browser_view", "set_evaluation_params"}

\* C20: each push operation (send_log, send_browser_view,
\* set_evaluation_params) returns normally, also when the emit under it
\* fails; the failure never reaches the caller.
C20_PushFailuresNeverPropagate ==
    last_op.op \in PushOperations => last_op.outcome = "returned"


\* C21: every run_task invocation starts with iteration counter 0,
\* completed = false, no error and an empty observation history, also the
\* second one made on the same agent object.
C21_StateDoesNotOutliveInvocation ==
    (IsCua /\ pc = "start") =>
        /\ iteration_count = 0
        /\ completed = FALSE
        /\ error = None
        /\ screenshots = << >>

\* C22: in a run that ends with completed = true, every computer_call item
\* received in any response of the run was executed exactly once: none is
\* executed twice and none is dropped.
C22_EveryCallExecutedExactlyOnce ==
    (IsCua /\ pc = "returned" /\ result.completed) =>
        /\ {executed[i].call_id : i \in 1..Len(executed)} = received
        /\ \A i, j \in 1..Len(executed) :
              i # j => executed[i].call_id # executed[j].call_id

\* C23: run_browser_task never raises to its caller: on every path (launch
\* failure, CDP or screencast failure, CUA initialisation failure, run_task
\* raising, normal completion) the invocation ends with a returned
\* dictionary whose keys are 'result' and 'screenshots'.
C23_RunBrowserTaskAlwaysReturnsResult ==
    \A t \in Tasks :
        /\ b_pc[t] \in {"finally", "stop_sent", "detach", "detach_sent", "close", "done"}
              => /\ b_result[t].kind \in {"result", "error"}
                 /\ b_result[t].keys = {"result", "screenshots"}
        /\ b_result[t].kind = "result" <=>
              /\ b_pc[t] \in {"finally", "stop_sent", "detach", "detach_sent", "close", "done"}
              /\ b_failed[t] \subseteq {"cdp", "screencast"}

C23_Witness ==
    \E t \in Tasks :
        /\ b_pc[t] = "done"
        /\ b_failed[t] = {"init_cua"}
        /\ b_result[t].kind = "error"
        /\ b_result[t].keys = {"result", "screenshots"}

\* C24: every follow-up request carries, with the call_id of the action it
\* answers, the id of the response in which that action was issued as
\* previous_response_id; and every executed computer_call that the loop has
\* moved past (a later action was executed, or a later response received)
\* had its output sent in some request.  Both controllers.
C24_FollowUpAnswersIssuingResponse ==
    ~Overflowed =>
        /\ request_data.call_id # NoCallId =>
              request_data.previous_response_id = request_data.call_id[1]
        /\ \A i \in 1..Len(executed) :
              (i < Len(executed) \/ n_responses > executed[i].at_resp) =>
                  executed[i].call_id \in sent

\* C25: in every cycle of cua_integration run_task the order is execute,
\* capture, append to the history, send: when a follow-up request is sent,
\* the history already ends with the entry of the call it answers, the image
\* of the request is the image of that entry, and that image was captured
\* after the action was executed and after the previous request was sent.
C25_RequestCarriesObservationAfterAction ==
    [][(IsCua /\ n_requests' > n_requests /\ request_data'.call_id # NoCallId) =>
          /\ screenshots # << >>
          /\ screenshots' = screenshots
          /\ request_data'.image = screenshots[Len(screenshots)].screenshot
          /\ request_data'.image = n_captures
          /\ screenshots[Len(screenshots)].action = computer_calls[call_idx].action
          /\ request_data'.call_id = computer_calls[call_idx].call_id
          /\ \A i \in 1..Len(executed) :
                executed[i].call_id = request_data'.call_id =>
                    /\ i = Len(executed)
                    /\ request_data'.image = executed[i].n_cap + 1
                    /\ executed[i].n_req = n_requests
          /\ \A j \in 1..(Len(screenshots) - 1) :
                screenshots[j].screenshot < request_data'.image]_vars

C25_Witness ==
    /\ IsCua
    /\ request_data.call_id # NoCallId
    /\ Len(executed) = 2
    /\ executed[2].call_id = request_data.call_id
    /\ request_data.image = executed[2].n_cap + 1
    /\ Len(screenshots) = 2
    /\ screenshots[2].screenshot = request_data.image

\* C26: both executors give every action type of the vocabulary {click,
\* double_click, type, keypress, scroll, move, drag, wait, screenshot} its
\* own branch; the 'unknown action' branch is taken exactly by the types
\* outside the vocabulary.
C26_WholeVocabularyHandled ==
    x_pc \in {"returned", "raised"} =>
        /\ x_branch = "unknown" <=> x_action.type \notin KnownVocabulary
        /\ x_action.type \in KnownVocabulary => x_branch = x_action.type

\* the device operations a drag along `path` is specified to issue
DragSequence(path) ==
    IF path = << >>
    THEN << >>
    ELSE <<Op("mouse.move", path[1])>> \o <<Op("mouse.down", None)>>
             \o [i \in 1..(Len(path) - 1) |-> Op("mouse.move", path[i + 1])]
             \o <<Op("mouse.up", None)>>

\* C27: a drag that returns has issued exactly: move to p1, press, move to
\* p2 .. pn in path order, release; with an empty path no device operation.
\* Both executors.
C27_DragIssuesPathSequence ==
    (x_action.type = "drag" /\ x_pc = "returned") => x_ops = DragSequence(x_action.path)

\* the device key a key name is specified to be pressed as
DeviceKey(key) ==
    CASE key \in {"ENTER", "enter"} -> "Enter"
      [] key \in {"SPACE", "Space"} -> " "
      [] key \in {"TAB", "tab"} -> "Tab"
      [] key \in {"ESCAPE", "Escape"} -> "Escape"
      [] OTHER -> key

\* C28: a keypress that returns has pressed one key per element of its key
\* list, in list order: ENTER, SPACE, TAB and ESCAPE (in any letter case) as
\* Enter, ' ', Tab and Escape, every other name unchanged.  Both executors.
C28_KeypressMapsCanonicalNames ==
    (x_action.type = "keypress" /\ x_pc = "returned") =>
        /\ Len(x_ops) = Len(x_action.keys)
        /\ \A i \in 1..Len(x_ops) :
              x_ops[i] = Op("keyboard.press", DeviceKey(x_action.keys[i]))

Past(t, positions) == b_pc[t] \in positions
AfterRunTask == {"finally", "stop_sent", "detach", "detach_sent", "close", "done"}
ScreencastFailures == {"cdp", "screencast"}

Started(t) == cdp_session[t] # NoSession /\ "screencast" \notin b_failed[t]
Expected(t) ==
    (IF Started(t) THEN <<"stop_screencast">> ELSE << >>)
        \o (IF cdp_session[t] # NoSession THEN <<"detach">> ELSE << >>)
        \o SelectSeq(CloseOrder, LAMBDA r : r \in acquired[t])
Range(q) == {q[i] : i \in 1..Len(q)}

\* C30: the cleanup of run_browser_task runs after the result is determined
\* and attempts stop screencast, detach, close page, context, browser, stop
\* playwright in this order, each for a resource that was acquired, also
\* after one of the steps failed; and when invocations that ran one after
\* the other have returned, active_cdp_session is None and
\* active_screencast_running is False.
C30_CleanupCompleteAndOrdered ==
    /\ \A t \in Tasks :
          /\ cleanup[t] # << >> => b_result[t] # NoTaskResult
          /\ cleanup[t] = SelectSeq(CleanupOrder, LAMBDA step : step \in Range(cleanup[t]))
          /\ b_pc[t] = "done" =>
                /\ SelectSeq(cleanup[t], LAMBDA step : step \in Range(CloseOrder))
                      = SelectSeq(CloseOrder, LAMBDA r : r \in acquired[t])
                /\ ~overlap => cleanup[t] = Expected(t)
          /\ cleanup_failed[t] # None => cleanup_failed[t] \in Range(cleanup[t])
    /\ (~overlap /\ \A t \in Tasks : b_pc[t] \in {"idle", "done"}) =>
          /\ active_cdp_session = NoSession
          /\ active_screencast_running = FALSE

C30_Witness ==
    /\ ~overlap
    /\ \A t \in Tasks : b_pc[t] = "done"
    /\ \E t \in Tasks :
          /\ cleanup_failed[t] = "detach"
          /\ cleanup[t] = CleanupOrder
    /\ \E t \in Tasks :
          /\ cleanup_failed[t] = "page"
          /\ Len(cleanup[t]) >= 4

\* C31: when run_openai_cua_task has ended, by a return or by an exception,
\* none of the resources it acquired (playwright driver, browser, page) is
\* still open: also when __aenter__ failed half way and when a close of
\* __aexit__ failed.
C31_ResourcesReleasedOnEveryPath ==
    \A m \in Managers : cm_pc[m] \in {"returned", "raised"} => cm_open[m] = {}

\* the entries of request r that the network storage holds
EntriesOf(r) ==
    {i \in 1..Len(network_request_storage) : network_request_storage[i].id = r}

\* C32: when both handler tasks of a logged request have finished and its
\* entry is still in network_request_storage, the entry carries the
\* response, whatever the order in which the two tasks ran; an entry
\* carries no other response than that of its own request.
C32_ResponseAttachedUnderEveryInterleaving ==
    \A r \in RequestIds :
        /\ (req_pc[r] = "done" /\ resp_pc[r] = "done"
                /\ should_log_network_request(requests[r])) =>
              \A i \in EntriesOf(r) : network_request_storage[i].response = r
        /\ \A i \in EntriesOf(r) :
              network_request_storage[i].response \in {NoResponseData, r}

\* the last n elements of q (all of q when it has fewer)
LastOf(q, n) == IF Len(q) <= n THEN q ELSE SubSeq(q, Len(q) - n + 1, Len(q))
StoredIds == [i \in 1..Len(network_request_storage) |-> network_request_storage[i].id]

\* C33: after any sequence of console and request events each of the two
\* storages holds at most MAX_LOG_ENTRIES entries, namely the most recently
\* appended ones in append order; and an entry of network_request_storage
\* always belongs to a request that passes should_log_network_request: type
\* xhr or fetch, not under /node_modules/, no filtered static extension.
C33_StoragesBoundedAndFiltered ==
    /\ Len(console_log_storage) <= MAX_LOG_ENTRIES
    /\ console_log_storage = LastOf([i \in 1..console_events |-> i], MAX_LOG_ENTRIES)
    /\ Len(network_request_storage) <= MAX_LOG_ENTRIES
    /\ StoredIds = LastOf(net_appended, MAX_LOG_ENTRIES)
    /\ \A i \in 1..Len(net_appended) :
          LET request == requests[net_appended[i]] IN
          /\ should_log_network_request(request)
          /\ request.resource_type \in {"xhr", "fetch"}
          /\ request.url \notin {"/node_modules/pkg/api", "/static/app.js", "/static/app.css?v=1"}

C33_Witness ==
    /\ Len(net_appended) > MAX_LOG_ENTRIES
    /\ Len(network_request_storage) = MAX_LOG_ENTRIES
    /\ network_request_storage[1].id = net_appended[2]

\* C34: the result a completed run_browser_task invocation returned is not
\* changed by an invocation made after it: no step of the later invocation
\* changes the entries of the earlier result's 'screenshots' list.
C34_ReturnedResultIsNotChangedLater ==
    [][\A t \in Tasks :
          (b_pc[t] = "done" /\ ~overlap') =>
              Screenshots(b_result[t])' = Screenshots(b_result[t])]_vars

ParamsHandlers == {"connect", "request_evaluation_params"}

\* C35: a client that connects, or asks for the evaluation parameters,
\* before set_evaluation_params was ever called is handled without error:
\* the handler returns, the client is connected, and no evaluation_params
\* event was emitted to it.
C35_ClientBeforeParamsHandledWithoutError ==
    (current_url = Unset /\ last_handler.handler \in ParamsHandlers) =>
        /\ last_handler.outcome = "returned"
        /\ last_handler.sid \in connected_clients
        /\ last_handler.events = << >>

\* a step of one of the two handlers that send the evaluation parameters
ParamsHandlerStep(sid) == HandleConnect(sid) \/ HandleRequestEvaluationParams(sid)
\* what a client is to be sent when the parameters are p
ExpectedEvents(sid, p) ==
    IF p.url = "" /\ p.task = "" THEN << >> ELSE <<EvaluationParamsEvent(sid, p.url, p.task)>>

\* C36: once a set_evaluation_params call with a non-empty url or task has
\* ended, a client that connects or asks for the parameters is sent exactly
\* one evaluation_params event, addressed to it alone, with the url and task
\* of the most recent set_evaluation_params call (the last one that ended,
\* or the one under way).
C36_LaterClientsGetCurrentParams ==
    [][\A sid \in Sids :
          (ParamsHandlerStep(sid) /\ last_set # NoParams
                /\ (last_set.url # "" \/ last_set.task # "")) =>
              /\ last_handler'.events = ExpectedEvents(sid, last_set)
                    \/ (set_call # NoParams
                            /\ last_handler'.events = ExpectedEvents(sid, set_call))
              /\ Len(last_handler'.events) <= 1
              /\ \A i \in 1..Len(last_handler'.events) : last_handler'.events[i].to = sid]_vars

\* the positions of the log entries of frame f with operation op
LogOf(f, op) == {i \in 1..Len(frame_log) : frame_log[i].frame = f /\ frame_log[i].op = op}
CarriesBoth(f) == frames[f].data /\ frames[f].sessionId # NoKey

\* C37: a frame event with 'data' and 'sessionId' is forwarded once and
\* then acknowledged exactly once with its own sessionId; a frame lacking
\* one of the keys is neither forwarded nor acknowledged; no failure of a
\* forwarding or an acknowledgement leaves the handler, and the frames after
\* a failed one are handled the same way.
C37_FramesForwardedThenAcknowledged ==
    /\ ~handler_raised
    /\ \A f \in Frames :
          /\ (f_pc[f] # "none" /\ CarriesBoth(f)) =>
                /\ Cardinality(LogOf(f, "browser_update")) = 1
                /\ Cardinality(LogOf(f, "Page.screencastFrameAck")) = 1
                /\ \A i \in LogOf(f, "browser_update"), j \in LogOf(f, "Page.screencastFrameAck") :
                      /\ i < j
                      /\ frame_log[j].sessionId = frames[f].sessionId
          /\ (f_pc[f] = "none" \/ ~CarriesBoth(f)) =>
                LogOf(f, "browser_update") \cup LogOf(f, "Page.screencastFrameAck") = {}
          /\ f \in ack_failed => f_pc[f] = "done"

C37_Witness ==
    /\ 1 \in ack_failed
    /\ \E i \in LogOf(1, "browser_update") : ~frame_log[i].ok
    /\ ~CarriesBoth(2) /\ f_pc[2] = "done"
    /\ CarriesBoth(3) /\ f_pc[3] = "done"
    /\ frames[3].sessionId # frames[1].sessionId
    /\ LogOf(3, "Page.screencastFrameAck") # {}

====
